---- MODULE Spec2Model ----
(***************************************************************************)
(* Slot-filling dialog engine of the period tracker:                       *)
(*   - extract_period_info (utils/text_processor.py)                       *)
(*   - VoiceConversationHandler (utils/voice_conversation_handler.py)      *)
(*   - PeriodDataStore (utils/data_store.py)                               *)
(*                                                                         *)
(* Python dicts are functions whose DOMAIN is the set of keys present.     *)
(* Strings on which the code does substring matching, lower() or strip()   *)
(* are sequences of one-character strings; strings the code only stores    *)
(* or tests for truthiness are TLA+ strings.                               *)
(***************************************************************************)
EXTENDS Integers, Sequences, FiniteSets, Bags, TLC

VARIABLES
    current_question,      \* VoiceConversationHandler.current_question
    conversation_history,  \* VoiceConversationHandler.conversation_history
    session_id,            \* VoiceConversationHandler.session_id
    hstore,                \* VoiceConversationHandler.data_store (its own PeriodDataStore)
    pc,                    \* position inside process_conversation
    result,                \* local `result` of process_conversation (the dict it returns)
    missing_fields,        \* local `missing_fields` of process_conversation
    extract_calls,         \* calls of extract_period_info made by the current process_conversation
    extract_total,         \* calls of extract_period_info made on this handler so far
    conv_no,               \* process_conversation calls started on this handler
    turn_log,              \* what extract_period_info returned in each turn of the current call
    tts_failures,          \* text-to-speech failures so far
    store,                 \* a PeriodDataStore driven through its public methods
    clock,                 \* datetime.now()
    ret,                   \* outcome of the last call: what it returned or raised
    asked,                 \* the first direct call of _generate_followup_question on the new handler, if any
    data_store,            \* PeriodTracker.data_store
    current_session_id,    \* PeriodTracker.current_session_id
    response,              \* what the last call of a PeriodTracker method returned or raised
    running,               \* the calls of the store's methods that have started and not yet returned or raised, each with its position and its locals: a bag
    calls_made,            \* calls of the store's methods the threads have started so far
    stdin,                 \* sys.stdin of the process: "open" or "closed"
    server_module          \* api/server.py in this process: "not imported" or "loaded"

vars == << current_question, conversation_history, session_id, hstore, pc, result,
           missing_fields, extract_calls, extract_total, conv_no, turn_log,
           tts_failures, store, clock, ret, asked, data_store, current_session_id,
           response, running, calls_made, stdin, server_module >>

\* the handler without the standard input of its process
conversationVars == << current_question, conversation_history, session_id, hstore, pc,
                       result, missing_fields, extract_calls, extract_total, conv_no,
                       turn_log, tts_failures, asked >>

handlerVars == << conversationVars, stdin >>

trackerVars == << data_store, current_session_id, response, server_module >>

threadVars == << running, calls_made >>

-----------------------------------------------------------------------------
(* Bounds of the model *)

\* process_conversation is not started when the calls of extract_period_info it
\* can make would take the handler's total past this bound
MaxExtractCalls == 7
\* text-to-speech fails at most this often on one handler
MaxTtsFailures == 1
\* sessions one PeriodDataStore holds in StoreSpec
MaxSessions == 2
\* log entries one PeriodDataStore holds in StoreSpec
MaxLogs == 2
\* largest reading of the clock
MaxClock == 1
\* words in a text handed to extract_period_info by itself
MaxWords == 2
\* calls of the store's methods that the threads make in one run
MaxCalls == 5

(* Program constants *)

\* self.max_questions = 5
max_questions == 5

\* Python None: a value that is no session id, no time and no str
None == -1

\* the session ids of the model: one more id than a store can hold, so that an
\* id unknown to the store always exists
SessionIds == 1..(MaxSessions + 1)

-----------------------------------------------------------------------------
(* Python str operations on sequences of characters *)

\* The characters of the module's texts are the characters a string of the
\* module can hold: those below U+0080 and those of the Basic Multilingual
\* Plane whose code has bit 7 set (U+0080..U+00FF, U+0180..U+01FF, ...),
\* without the grave accent U+0060.
\* A character a string of the module cannot hold is named by its code:
\* "U+0253" is the one character U+0253. Such a character is in no text, and
\* can be in what str.lower() and str.title() make of a text.
\* UpperCase holds every character of the texts that str.lower() changes,
\* LowerCase its image at the same index.
UpperCase == << "A","B","C","D","E","F","G","H","I","J","K","L","M","N","O","P",
                "Q","R","S","T","U","V","W","X","Y","Z","À","Á","Â","Ã","Ä","Å",
                "Æ","Ç","È","É","Ê","Ë","Ì","Í","Î","Ï","Ð","Ñ","Ò","Ó","Ô","Õ",
                "Ö","Ø","Ù","Ú","Û","Ü","Ý","Þ","Ɓ","Ƃ","Ƅ","Ɔ","Ƈ","Ɖ","Ɗ","Ƌ",
                "Ǝ","Ə","Ɛ","Ƒ","Ɠ","Ɣ","Ɩ","Ɨ","Ƙ","Ɯ","Ɲ","Ɵ","Ơ","Ƣ","Ƥ","Ʀ",
                "Ƨ","Ʃ","Ƭ","Ʈ","Ư","Ʊ","Ʋ","Ƴ","Ƶ","Ʒ","Ƹ","Ƽ","Ǆ","ǅ","Ǉ","ǈ",
                "Ǌ","ǋ","Ǎ","Ǐ","Ǒ","Ǔ","Ǖ","Ǘ","Ǚ","Ǜ","Ǟ","Ǡ","Ǣ","Ǥ","Ǧ","Ǩ",
                "Ǫ","Ǭ","Ǯ","Ǳ","ǲ","Ǵ","Ƕ","Ƿ","Ǹ","Ǻ","Ǽ","Ǿ","Ά","Έ","Ή","Ί",
                "Ό","Ύ","Ώ","Α","Β","Γ","Δ","Ε","Ζ","Η","Θ","Ι","Κ","Λ","Μ","Ν",
                "Ξ","Ο","Π","Ρ","Σ","Τ","Υ","Φ","Χ","Ψ","Ω","Ϊ","Ϋ","Ϗ","Ϙ","Ϛ",
                "Ϝ","Ϟ","Ϡ","Ϣ","Ϥ","Ϧ","Ϩ","Ϫ","Ϭ","Ϯ","ϴ","Ϸ","Ϲ","Ϻ","Ͻ","Ͼ",
                "Ͽ","Ҁ","Ҋ","Ҍ","Ҏ","Ґ","Ғ","Ҕ","Җ","Ҙ","Қ","Ҝ","Ҟ","Ҡ","Ң","Ҥ",
                "Ҧ","Ҩ","Ҫ","Ҭ","Ү","Ұ","Ҳ","Ҵ","Ҷ","Ҹ","Һ","Ҽ","Ҿ","Ӏ","Ӂ","Ӄ",
                "Ӆ","Ӈ","Ӊ","Ӌ","Ӎ","Ӑ","Ӓ","Ӕ","Ӗ","Ә","Ӛ","Ӝ","Ӟ","Ӡ","Ӣ","Ӥ",
                "Ӧ","Ө","Ӫ","Ӭ","Ӯ","Ӱ","Ӳ","Ӵ","Ӷ","Ӹ","Ӻ","Ӽ","Ӿ","Ⴀ","Ⴁ","Ⴂ",
                "Ⴃ","Ⴄ","Ⴅ","Ⴆ","Ⴇ","Ⴈ","Ⴉ","Ⴊ","Ⴋ","Ⴌ","Ⴍ","Ⴎ","Ⴏ","Ⴐ","Ⴑ","Ⴒ",
                "Ⴓ","Ⴔ","Ⴕ","Ⴖ","Ⴗ","Ⴘ","Ⴙ","Ⴚ","Ⴛ","Ⴜ","Ⴝ","Ⴞ","Ⴟ","Ⴠ","Ⴡ","Ⴢ",
                "Ⴣ","Ⴤ","Ⴥ","Ⴧ","Ⴭ","Ꭰ","Ꭱ","Ꭲ","Ꭳ","Ꭴ","Ꭵ","Ꭶ","Ꭷ","Ꭸ","Ꭹ","Ꭺ",
                "Ꭻ","Ꭼ","Ꭽ","Ꭾ","Ꭿ","Ꮀ","Ꮁ","Ꮂ","Ꮃ","Ꮄ","Ꮅ","Ꮆ","Ꮇ","Ꮈ","Ꮉ","Ꮊ",
                "Ꮋ","Ꮌ","Ꮍ","Ꮎ","Ꮏ","Ꮐ","Ꮑ","Ꮒ","Ꮓ","Ꮔ","Ꮕ","Ꮖ","Ꮗ","Ꮘ","Ꮙ","Ꮚ",
                "Ꮛ","Ꮜ","Ꮝ","Ꮞ","Ꮟ","Ꮠ","Ꮡ","Ꮢ","Ꮣ","Ꮤ","Ꮥ","Ꮦ","Ꮧ","Ꮨ","Ꮩ","Ꮪ",
                "Ꮫ","Ꮬ","Ꮭ","Ꮮ","Ꮯ","Ꮰ","Ꮱ","Ꮲ","Ꮳ","Ꮴ","Ꮵ","Ꮶ","Ꮷ","Ꮸ","Ꮹ","Ꮺ",
                "Ꮻ","Ꮼ","Ꮽ","Ꮾ","Ꮿ","Ᏸ","Ᏹ","Ᏺ","Ᏻ","Ᏼ","Ᏽ","Ა","Ბ","Გ","Დ","Ე",
                "Ვ","Ზ","Თ","Ი","Კ","Ლ","Მ","Ნ","Ო","Პ","Ჟ","Რ","Ს","Ტ","Უ","Ფ",
                "Ქ","Ღ","Ყ","Შ","Ჩ","Ც","Ძ","Წ","Ჭ","Ხ","Ჯ","Ჰ","Ჱ","Ჲ","Ჳ","Ჴ",
                "Ჵ","Ჶ","Ჷ","Ჸ","Ჹ","Ჺ","Ჽ","Ჾ","Ჿ","Ẁ","Ẃ","Ẅ","Ẇ","Ẉ","Ẋ","Ẍ",
                "Ẏ","Ẑ","Ẓ","Ẕ","ẞ","Ạ","Ả","Ấ","Ầ","Ẩ","Ẫ","Ậ","Ắ","Ằ","Ẳ","Ẵ",
                "Ặ","Ẹ","Ẻ","Ẽ","Ế","Ề","Ể","Ễ","Ệ","Ỉ","Ị","Ọ","Ỏ","Ố","Ồ","Ổ",
                "Ỗ","Ộ","Ớ","Ờ","Ở","Ỡ","Ợ","Ụ","Ủ","Ứ","Ừ","Ử","Ữ","Ự","Ỳ","Ỵ",
                "Ỷ","Ỹ","Ỻ","Ỽ","Ỿ","ᾈ","ᾉ","ᾊ","ᾋ","ᾌ","ᾍ","ᾎ","ᾏ","ᾘ","ᾙ","ᾚ",
                "ᾛ","ᾜ","ᾝ","ᾞ","ᾟ","ᾨ","ᾩ","ᾪ","ᾫ","ᾬ","ᾭ","ᾮ","ᾯ","Ᾰ","Ᾱ","Ὰ",
                "Ά","ᾼ","Ὲ","Έ","Ὴ","Ή","ῌ","Ῐ","Ῑ","Ὶ","Ί","Ῠ","Ῡ","Ὺ","Ύ","Ῥ",
                "Ὸ","Ό","Ὼ","Ώ","ῼ","Ↄ","Ⓐ","Ⓑ","Ⓒ","Ⓓ","Ⓔ","Ⓕ","Ⓖ","Ⓗ","Ⓘ","Ⓙ",
                "Ⓚ","Ⓛ","Ⓜ","Ⓝ","Ⓞ","Ⓟ","Ⓠ","Ⓡ","Ⓢ","Ⓣ","Ⓤ","Ⓥ","Ⓦ","Ⓧ","Ⓨ","Ⓩ",
                "Ⲁ","Ⲃ","Ⲅ","Ⲇ","Ⲉ","Ⲋ","Ⲍ","Ⲏ","Ⲑ","Ⲓ","Ⲕ","Ⲗ","Ⲙ","Ⲛ","Ⲝ","Ⲟ",
                "Ⲡ","Ⲣ","Ⲥ","Ⲧ","Ⲩ","Ⲫ","Ⲭ","Ⲯ","Ⲱ","Ⲳ","Ⲵ","Ⲷ","Ⲹ","Ⲻ","Ⲽ","Ⲿ",
                "Ⳁ","Ⳃ","Ⳅ","Ⳇ","Ⳉ","Ⳋ","Ⳍ","Ⳏ","Ⳑ","Ⳓ","Ⳕ","Ⳗ","Ⳙ","Ⳛ","Ⳝ","Ⳟ",
                "Ⳡ","Ⳣ","Ⳬ","Ⳮ","Ⳳ","Ꚁ","Ꚃ","Ꚅ","Ꚇ","Ꚉ","Ꚋ","Ꚍ","Ꚏ","Ꚑ","Ꚓ","Ꚕ",
                "Ꚗ","Ꚙ","Ꚛ","Ꞁ","Ꞃ","Ꞅ","Ꞇ","Ꞌ","Ɥ","Ꞑ","Ꞓ","Ꞗ","Ꞙ","Ꞛ","Ꞝ","Ꞟ",
                "Ꞡ","Ꞣ","Ꞥ","Ꞧ","Ꞩ","Ɦ","Ɜ","Ɡ","Ɬ","Ɪ","Ʞ","Ʇ","Ʝ","Ꭓ","Ꞵ","Ꞷ",
                "Ꞹ","Ꞻ","Ꞽ","Ꞿ","Ꟁ","Ꟃ","Ꞔ","Ʂ","Ᶎ","Ꟈ","Ꟊ","Ꟑ","Ꟗ","Ꟙ","Ꟶ" >>
LowerCase == << "a","b","c","d","e","f","g","h","i","j","k","l","m","n","o","p",
                "q","r","s","t","u","v","w","x","y","z","à","á","â","ã","ä","å",
                "æ","ç","è","é","ê","ë","ì","í","î","ï","ð","ñ","ò","ó","ô","õ",
                "ö","ø","ù","ú","û","ü","ý","þ","U+0253","ƃ","ƅ","U+0254","ƈ","U+0256","U+0257","ƌ",
                "ǝ","U+0259","U+025B","ƒ","U+0260","U+0263","U+0269","U+0268","ƙ","U+026F","U+0272","U+0275","ơ","ƣ","ƥ","ʀ",
                "ƨ","ʃ","ƭ","ʈ","ư","ʊ","ʋ","ƴ","ƶ","ʒ","ƹ","ƽ","ǆ","ǆ","ǉ","ǉ",
                "ǌ","ǌ","ǎ","ǐ","ǒ","ǔ","ǖ","ǘ","ǚ","ǜ","ǟ","ǡ","ǣ","ǥ","ǧ","ǩ",
                "ǫ","ǭ","ǯ","ǳ","ǳ","ǵ","ƕ","ƿ","ǹ","ǻ","ǽ","ǿ","ά","έ","ή","ί",
                "ό","ύ","ώ","α","β","γ","δ","ε","ζ","η","θ","ι","κ","λ","μ","ν",
                "ξ","ο","π","ρ","σ","τ","υ","φ","χ","ψ","ω","ϊ","ϋ","ϗ","ϙ","ϛ",
                "ϝ","ϟ","ϡ","ϣ","ϥ","ϧ","ϩ","ϫ","ϭ","ϯ","θ","ϸ","ϲ","ϻ","U+037B","U+037C",
                "U+037D","ҁ","ҋ","ҍ","ҏ","ґ","ғ","ҕ","җ","ҙ","қ","ҝ","ҟ","ҡ","ң","ҥ",
                "ҧ","ҩ","ҫ","ҭ","ү","ұ","ҳ","ҵ","ҷ","ҹ","һ","ҽ","ҿ","ӏ","ӂ","ӄ",
                "ӆ","ӈ","ӊ","ӌ","ӎ","ӑ","ӓ","ӕ","ӗ","ә","ӛ","ӝ","ӟ","ӡ","ӣ","ӥ",
                "ӧ","ө","ӫ","ӭ","ӯ","ӱ","ӳ","ӵ","ӷ","ӹ","ӻ","ӽ","ӿ","U+2D00","U+2D01","U+2D02",
                "U+2D03","U+2D04","U+2D05","U+2D06","U+2D07","U+2D08","U+2D09","U+2D0A","U+2D0B","U+2D0C","U+2D0D","U+2D0E","U+2D0F","U+2D10","U+2D11","U+2D12",
                "U+2D13","U+2D14","U+2D15","U+2D16","U+2D17","U+2D18","U+2D19","U+2D1A","U+2D1B","U+2D1C","U+2D1D","U+2D1E","U+2D1F","U+2D20","U+2D21","U+2D22",
                "U+2D23","U+2D24","U+2D25","U+2D27","U+2D2D","U+AB70","U+AB71","U+AB72","U+AB73","U+AB74","U+AB75","U+AB76","U+AB77","U+AB78","U+AB79","U+AB7A",
                "U+AB7B","U+AB7C","U+AB7D","U+AB7E","U+AB7F","ꮀ","ꮁ","ꮂ","ꮃ","ꮄ","ꮅ","ꮆ","ꮇ","ꮈ","ꮉ","ꮊ",
                "ꮋ","ꮌ","ꮍ","ꮎ","ꮏ","ꮐ","ꮑ","ꮒ","ꮓ","ꮔ","ꮕ","ꮖ","ꮗ","ꮘ","ꮙ","ꮚ",
                "ꮛ","ꮜ","ꮝ","ꮞ","ꮟ","ꮠ","ꮡ","ꮢ","ꮣ","ꮤ","ꮥ","ꮦ","ꮧ","ꮨ","ꮩ","ꮪ",
                "ꮫ","ꮬ","ꮭ","ꮮ","ꮯ","ꮰ","ꮱ","ꮲ","ꮳ","ꮴ","ꮵ","ꮶ","ꮷ","ꮸ","ꮹ","ꮺ",
                "ꮻ","ꮼ","ꮽ","ꮾ","ꮿ","ᏸ","ᏹ","ᏺ","ᏻ","ᏼ","ᏽ","ა","ბ","გ","დ","ე",
                "ვ","ზ","თ","ი","კ","ლ","მ","ნ","ო","პ","ჟ","რ","ს","ტ","უ","ფ",
                "ქ","ღ","ყ","შ","ჩ","ც","ძ","წ","ჭ","ხ","ჯ","ჰ","ჱ","ჲ","ჳ","ჴ",
                "ჵ","ჶ","ჷ","ჸ","ჹ","ჺ","ჽ","ჾ","ჿ","ẁ","ẃ","ẅ","ẇ","ẉ","ẋ","ẍ",
                "ẏ","ẑ","ẓ","ẕ","ß","ạ","ả","ấ","ầ","ẩ","ẫ","ậ","ắ","ằ","ẳ","ẵ",
                "ặ","ẹ","ẻ","ẽ","ế","ề","ể","ễ","ệ","ỉ","ị","ọ","ỏ","ố","ồ","ổ",
                "ỗ","ộ","ớ","ờ","ở","ỡ","ợ","ụ","ủ","ứ","ừ","ử","ữ","ự","ỳ","ỵ",
                "ỷ","ỹ","ỻ","ỽ","ỿ","ᾀ","ᾁ","ᾂ","ᾃ","ᾄ","ᾅ","ᾆ","ᾇ","ᾐ","ᾑ","ᾒ",
                "ᾓ","ᾔ","ᾕ","ᾖ","ᾗ","ᾠ","ᾡ","ᾢ","ᾣ","ᾤ","ᾥ","ᾦ","ᾧ","ᾰ","ᾱ","U+1F70",
                "U+1F71","ᾳ","U+1F72","U+1F73","U+1F74","U+1F75","ῃ","ῐ","ῑ","U+1F76","U+1F77","ῠ","ῡ","U+1F7A","U+1F7B","ῥ",
                "U+1F78","U+1F79","U+1F7C","U+1F7D","ῳ","ↄ","ⓐ","ⓑ","ⓒ","ⓓ","ⓔ","ⓕ","ⓖ","ⓗ","ⓘ","ⓙ",
                "ⓚ","ⓛ","ⓜ","ⓝ","ⓞ","ⓟ","ⓠ","ⓡ","ⓢ","ⓣ","ⓤ","ⓥ","ⓦ","ⓧ","ⓨ","ⓩ",
                "ⲁ","ⲃ","ⲅ","ⲇ","ⲉ","ⲋ","ⲍ","ⲏ","ⲑ","ⲓ","ⲕ","ⲗ","ⲙ","ⲛ","ⲝ","ⲟ",
                "ⲡ","ⲣ","ⲥ","ⲧ","ⲩ","ⲫ","ⲭ","ⲯ","ⲱ","ⲳ","ⲵ","ⲷ","ⲹ","ⲻ","ⲽ","ⲿ",
                "ⳁ","ⳃ","ⳅ","ⳇ","ⳉ","ⳋ","ⳍ","ⳏ","ⳑ","ⳓ","ⳕ","ⳗ","ⳙ","ⳛ","ⳝ","ⳟ",
                "ⳡ","ⳣ","ⳬ","ⳮ","ⳳ","ꚁ","ꚃ","ꚅ","ꚇ","ꚉ","ꚋ","ꚍ","ꚏ","ꚑ","ꚓ","ꚕ",
                "ꚗ","ꚙ","ꚛ","ꞁ","ꞃ","ꞅ","ꞇ","ꞌ","U+0265","ꞑ","ꞓ","ꞗ","ꞙ","ꞛ","ꞝ","ꞟ",
                "ꞡ","ꞣ","ꞥ","ꞧ","ꞩ","U+0266","U+025C","U+0261","U+026C","U+026A","ʞ","ʇ","ʝ","U+AB53","ꞵ","ꞷ",
                "ꞹ","ꞻ","ꞽ","ꞿ","ꟁ","ꟃ","ꞔ","ʂ","ᶎ","ꟈ","ꟊ","ꟑ","ꟗ","ꟙ","ꟶ" >>

\* the index of each letter of UpperCase, as a table (<< >> @@ f is f with
\* every value worked out)
UpperIndex ==
    << >> @@ [ c \in { UpperCase[i] : i \in 1..Len(UpperCase) } |->
                 CHOOSE i \in 1..Len(UpperCase) : UpperCase[i] = c ]

\* str.lower() of a string of one character
lower_char(c) == IF c \in DOMAIN UpperIndex THEN LowerCase[UpperIndex[c]] ELSE c

\* the characters str.lower() skips when it looks for the letters around a
\* capital sigma (Case_Ignorable)
CaseIgnorable == { "'",".",":","^","¨","­","¯","´","·","¸","ʰ","ʱ","ʲ","ʳ","ʴ",
                   "ʵ","ʶ","ʷ","ʸ","ʹ","ʺ","ʻ","ʼ","ʽ","ʾ","ʿ","ˀ","ˁ","˂","˃","˄",
                   "˅","ˆ","ˇ","ˈ","ˉ","ˊ","ˋ","ˌ","ˍ","ˎ","ˏ","ː","ˑ","˒","˓","˔",
                   "˕","˖","˗","˘","˙","˚","˛","˜","˝","˞","˟","ˠ","ˡ","ˢ","ˣ","ˤ",
                   "˥","˦","˧","˨","˩","˪","˫","ˬ","˭","ˮ","˯","˰","˱","˲","˳","˴",
                   "˵","˶","˷","˸","˹","˺","˻","˼","˽","˾","˿","΄","΅","·","҃","҄",
                   "҅","҆","҇","҈","҉","֑","֒","֓","֔","֕","֖","֗","֘","֙","֚","֛",
                   "֜","֝","֞","֟","֠","֡","֢","֣","֤","֥","֦","֧","֨","֩","֪","֫",
                   "֬","֭","֮","֯","ְ","ֱ","ֲ","ֳ","ִ","ֵ","ֶ","ַ","ָ","ֹ","ֺ","ֻ",
                   "ּ","ֽ","ֿ","ׁ","ׂ","ׄ","ׅ","ׇ","״","ۖ","ۗ","ۘ","ۙ","ۚ","ۛ","ۜ",
                   "۝","۟","۠","ۡ","ۢ","ۣ","ۤ","ۥ","ۦ","ۧ","ۨ","۪","۫","۬","ۭ","ަ",
                   "ާ","ި","ީ","ު","ޫ","ެ","ޭ","ޮ","ޯ","ް","߫","߬","߭","߮","߯","߰",
                   "߱","߲","߳","ߴ","ߵ","ߺ","߽","࢈","࢐","࢑","࢘","࢙","࢚","࢛","࢜","࢝",
                   "࢞","࢟","ࣉ","࣊","࣋","࣌","࣍","࣎","࣏","࣐","࣑","࣒","࣓","ࣔ","ࣕ","ࣖ",
                   "ࣗ","ࣘ","ࣙ","ࣚ","ࣛ","ࣜ","ࣝ","ࣞ","ࣟ","࣠","࣡","࣢","ࣣ","ࣤ","ࣥ","ࣦ",
                   "ࣧ","ࣨ","ࣩ","࣪","࣫","࣬","࣭","࣮","࣯","ࣰ","ࣱ","ࣲ","ࣳ","ࣴ","ࣵ","ࣶ",
                   "ࣷ","ࣸ","ࣹ","ࣺ","ࣻ","ࣼ","ࣽ","ࣾ","ࣿ","ঁ","়","ু","ূ","ৃ","ৄ","্",
                   "ৢ","ৣ","৾","ઁ","ં","઼","ુ","ૂ","ૃ","ૄ","ૅ","ે","ૈ","્","ૢ","ૣ",
                   "ૺ","ૻ","ૼ","૽","૾","૿","ஂ","ீ","்","ಁ","಼","ಿ","ೆ","ೌ","್","ೢ",
                   "ೣ","ඁ","්","ි","ී","ු","ූ","ັ","ິ","ີ","ຶ","ື","ຸ","ູ","຺","ົ",
                   "ຼ","ໆ","່","້","໊","໋","໌","ໍ","ྀ","ཱྀ","ྂ","ྃ","྄","྆","྇","ྍ",
                   "ྎ","ྏ","ྐ","ྑ","ྒ","ྒྷ","ྔ","ྕ","ྖ","ྗ","ྙ","ྚ","ྛ","ྜ","ྜྷ","ྞ",
                   "ྟ","ྠ","ྡ","ྡྷ","ྣ","ྤ","ྥ","ྦ","ྦྷ","ྨ","ྩ","ྪ","ྫ","ྫྷ","ྭ","ྮ",
                   "ྯ","ྰ","ྱ","ྲ","ླ","ྴ","ྵ","ྶ","ྷ","ྸ","ྐྵ","ྺ","ྻ","ྼ","࿆","ႂ",
                   "ႅ","ႆ","ႍ","ႝ","ჼ","឴","឵","ិ","ី","ឹ","ឺ","ុ","ូ","ួ","ំ","៉",
                   "៊","់","៌","៍","៎","៏","័","៑","្","៓","ៗ","៝","ᢅ","ᢆ","ᢩ","ᪧ",
                   "᪰","᪱","᪲","᪳","᪴","᪵","᪶","᪷","᪸","᪹","᪺","᪻","᪼","᪽","᪾","ᪿ",
                   "ᫀ","᫁","᫂","᫃","᫄","᫅","᫆","᫇","᫈","᫉","᫊","᫋","ᫌ","ᫍ","ᫎ","ᮀ",
                   "ᮁ","ᮢ","ᮣ","ᮤ","ᮥ","ᮨ","ᮩ","᮫","ᮬ","ᮭ","᯦","ᯨ","ᯩ","ᯭ","ᯯ","ᯰ",
                   "ᯱ","᳐","᳑","᳒","᳔","᳕","᳖","᳗","᳘","᳙","᳚","᳛","᳜","᳝","᳞","᳟",
                   "᳠","᳢","᳣","᳤","᳥","᳦","᳧","᳨","᳭","᳴","᳸","᳹","ᶛ","ᶜ","ᶝ","ᶞ",
                   "ᶟ","ᶠ","ᶡ","ᶢ","ᶣ","ᶤ","ᶥ","ᶦ","ᶧ","ᶨ","ᶩ","ᶪ","ᶫ","ᶬ","ᶭ","ᶮ",
                   "ᶯ","ᶰ","ᶱ","ᶲ","ᶳ","ᶴ","ᶵ","ᶶ","ᶷ","ᶸ","ᶹ","ᶺ","ᶻ","ᶼ","ᶽ","ᶾ",
                   "ᶿ","᷀","᷁","᷂","᷃","᷄","᷅","᷆","᷇","᷈","᷉","᷊","᷋","᷌","᷍","᷎",
                   "᷏","᷐","᷑","᷒","ᷓ","ᷔ","ᷕ","ᷖ","ᷗ","ᷘ","ᷙ","ᷚ","ᷛ","ᷜ","ᷝ","ᷞ",
                   "ᷟ","ᷠ","ᷡ","ᷢ","ᷣ","ᷤ","ᷥ","ᷦ","ᷧ","ᷨ","ᷩ","ᷪ","ᷫ","ᷬ","ᷭ","ᷮ",
                   "ᷯ","ᷰ","ᷱ","ᷲ","ᷳ","ᷴ","᷵","᷶","᷷","᷸","᷹","᷺","᷻","᷼","᷽","᷾",
                   "᷿","᾽","᾿","῀","῁","῍","῎","῏","῝","῞","῟","῭","΅","`","´","῾",
                   "ₐ","ₑ","ₒ","ₓ","ₔ","ₕ","ₖ","ₗ","ₘ","ₙ","ₚ","ₛ","ₜ","⃐","⃑","⃒",
                   "⃓","⃔","⃕","⃖","⃗","⃘","⃙","⃚","⃛","⃜","⃝","⃞","⃟","⃠","⃡","⃢",
                   "⃣","⃤","⃥","⃦","⃧","⃨","⃩","⃪","⃫","⃬","⃭","⃮","⃯","⃰","⳯","⳰",
                   "⳱","ⷠ","ⷡ","ⷢ","ⷣ","ⷤ","ⷥ","ⷦ","ⷧ","ⷨ","ⷩ","ⷪ","ⷫ","ⷬ","ⷭ","ⷮ",
                   "ⷯ","ⷰ","ⷱ","ⷲ","ⷳ","ⷴ","ⷵ","ⷶ","ⷷ","ⷸ","ⷹ","ⷺ","ⷻ","ⷼ","ⷽ","ⷾ",
                   "ⷿ","゙","゚","゛","゜","ゝ","ゞ","ー","ヽ","ヾ","ꓸ","ꓹ","ꓺ","ꓻ","ꓼ","ꓽ",
                   "ꚜ","ꚝ","ꚞ","ꚟ","꛰","꛱","ꞈ","꞉","꞊","ꟲ","ꟳ","ꟴ","ꟸ","ꟹ","꣄","ꣅ",
                   "꣠","꣡","꣢","꣣","꣤","꣥","꣦","꣧","꣨","꣩","꣪","꣫","꣬","꣭","꣮","꣯",
                   "꣰","꣱","ꣿ","ꦀ","ꦁ","ꦂ","꦳","ꦶ","ꦷ","ꦸ","ꦹ","ꦼ","ꦽ","ꧏ","ꧥ","ꧦ",
                   "ꪰ","ꪲ","ꪳ","ꪴ","ꪷ","ꪸ","ꪾ","꪿","꫁","ꫝ","ꫬ","ꫭ","ꫳ","ꫴ","꫶","ꯥ",
                   "ꯨ","꯭","﮲","﮳","﮴","﮵","﮶","﮷","﮸","﮹","﮺","﮻","﮼","﮽","﮾","﮿",
                   "﯀","﯁","﯂","﻿","ﾞ","ﾟ","￣","￹","￺","￻" }

\* the cased characters that are not skipped (Cased and not Case_Ignorable)
Cased == { "A","B","C","D","E","F","G","H","I","J","K","L","M","N","O","P",
           "Q","R","S","T","U","V","W","X","Y","Z","a","b","c","d","e","f",
           "g","h","i","j","k","l","m","n","o","p","q","r","s","t","u","v",
           "w","x","y","z","ª","µ","º","À","Á","Â","Ã","Ä","Å","Æ","Ç","È",
           "É","Ê","Ë","Ì","Í","Î","Ï","Ð","Ñ","Ò","Ó","Ô","Õ","Ö","Ø","Ù",
           "Ú","Û","Ü","Ý","Þ","ß","à","á","â","ã","ä","å","æ","ç","è","é",
           "ê","ë","ì","í","î","ï","ð","ñ","ò","ó","ô","õ","ö","ø","ù","ú",
           "û","ü","ý","þ","ÿ","ƀ","Ɓ","Ƃ","ƃ","Ƅ","ƅ","Ɔ","Ƈ","ƈ","Ɖ","Ɗ",
           "Ƌ","ƌ","ƍ","Ǝ","Ə","Ɛ","Ƒ","ƒ","Ɠ","Ɣ","ƕ","Ɩ","Ɨ","Ƙ","ƙ","ƚ",
           "ƛ","Ɯ","Ɲ","ƞ","Ɵ","Ơ","ơ","Ƣ","ƣ","Ƥ","ƥ","Ʀ","Ƨ","ƨ","Ʃ","ƪ",
           "ƫ","Ƭ","ƭ","Ʈ","Ư","ư","Ʊ","Ʋ","Ƴ","ƴ","Ƶ","ƶ","Ʒ","Ƹ","ƹ","ƺ",
           "Ƽ","ƽ","ƾ","ƿ","Ǆ","ǅ","ǆ","Ǉ","ǈ","ǉ","Ǌ","ǋ","ǌ","Ǎ","ǎ","Ǐ",
           "ǐ","Ǒ","ǒ","Ǔ","ǔ","Ǖ","ǖ","Ǘ","ǘ","Ǚ","ǚ","Ǜ","ǜ","ǝ","Ǟ","ǟ",
           "Ǡ","ǡ","Ǣ","ǣ","Ǥ","ǥ","Ǧ","ǧ","Ǩ","ǩ","Ǫ","ǫ","Ǭ","ǭ","Ǯ","ǯ",
           "ǰ","Ǳ","ǲ","ǳ","Ǵ","ǵ","Ƕ","Ƿ","Ǹ","ǹ","Ǻ","ǻ","Ǽ","ǽ","Ǿ","ǿ",
           "ʀ","ʁ","ʂ","ʃ","ʄ","ʅ","ʆ","ʇ","ʈ","ʉ","ʊ","ʋ","ʌ","ʍ","ʎ","ʏ",
           "ʐ","ʑ","ʒ","ʓ","ʕ","ʖ","ʗ","ʘ","ʙ","ʚ","ʛ","ʜ","ʝ","ʞ","ʟ","ʠ",
           "ʡ","ʢ","ʣ","ʤ","ʥ","ʦ","ʧ","ʨ","ʩ","ʪ","ʫ","ʬ","ʭ","ʮ","ʯ","Ά",
           "Έ","Ή","Ί","Ό","Ύ","Ώ","ΐ","Α","Β","Γ","Δ","Ε","Ζ","Η","Θ","Ι",
           "Κ","Λ","Μ","Ν","Ξ","Ο","Π","Ρ","Σ","Τ","Υ","Φ","Χ","Ψ","Ω","Ϊ",
           "Ϋ","ά","έ","ή","ί","ΰ","α","β","γ","δ","ε","ζ","η","θ","ι","κ",
           "λ","μ","ν","ξ","ο","π","ρ","ς","σ","τ","υ","φ","χ","ψ","ω","ϊ",
           "ϋ","ό","ύ","ώ","Ϗ","ϐ","ϑ","ϒ","ϓ","ϔ","ϕ","ϖ","ϗ","Ϙ","ϙ","Ϛ",
           "ϛ","Ϝ","ϝ","Ϟ","ϟ","Ϡ","ϡ","Ϣ","ϣ","Ϥ","ϥ","Ϧ","ϧ","Ϩ","ϩ","Ϫ",
           "ϫ","Ϭ","ϭ","Ϯ","ϯ","ϰ","ϱ","ϲ","ϳ","ϴ","ϵ","Ϸ","ϸ","Ϲ","Ϻ","ϻ",
           "ϼ","Ͻ","Ͼ","Ͽ","Ҁ","ҁ","Ҋ","ҋ","Ҍ","ҍ","Ҏ","ҏ","Ґ","ґ","Ғ","ғ",
           "Ҕ","ҕ","Җ","җ","Ҙ","ҙ","Қ","қ","Ҝ","ҝ","Ҟ","ҟ","Ҡ","ҡ","Ң","ң",
           "Ҥ","ҥ","Ҧ","ҧ","Ҩ","ҩ","Ҫ","ҫ","Ҭ","ҭ","Ү","ү","Ұ","ұ","Ҳ","ҳ",
           "Ҵ","ҵ","Ҷ","ҷ","Ҹ","ҹ","Һ","һ","Ҽ","ҽ","Ҿ","ҿ","Ӏ","Ӂ","ӂ","Ӄ",
           "ӄ","Ӆ","ӆ","Ӈ","ӈ","Ӊ","ӊ","Ӌ","ӌ","Ӎ","ӎ","ӏ","Ӑ","ӑ","Ӓ","ӓ",
           "Ӕ","ӕ","Ӗ","ӗ","Ә","ә","Ӛ","ӛ","Ӝ","ӝ","Ӟ","ӟ","Ӡ","ӡ","Ӣ","ӣ",
           "Ӥ","ӥ","Ӧ","ӧ","Ө","ө","Ӫ","ӫ","Ӭ","ӭ","Ӯ","ӯ","Ӱ","ӱ","Ӳ","ӳ",
           "Ӵ","ӵ","Ӷ","ӷ","Ӹ","ӹ","Ӻ","ӻ","Ӽ","ӽ","Ӿ","ӿ","ր","ց","ւ","փ",
           "ք","օ","ֆ","և","ֈ","Ⴀ","Ⴁ","Ⴂ","Ⴃ","Ⴄ","Ⴅ","Ⴆ","Ⴇ","Ⴈ","Ⴉ","Ⴊ",
           "Ⴋ","Ⴌ","Ⴍ","Ⴎ","Ⴏ","Ⴐ","Ⴑ","Ⴒ","Ⴓ","Ⴔ","Ⴕ","Ⴖ","Ⴗ","Ⴘ","Ⴙ","Ⴚ",
           "Ⴛ","Ⴜ","Ⴝ","Ⴞ","Ⴟ","Ⴠ","Ⴡ","Ⴢ","Ⴣ","Ⴤ","Ⴥ","Ⴧ","Ⴭ","ა","ბ","გ",
           "დ","ე","ვ","ზ","თ","ი","კ","ლ","მ","ნ","ო","პ","ჟ","რ","ს","ტ",
           "უ","ფ","ქ","ღ","ყ","შ","ჩ","ც","ძ","წ","ჭ","ხ","ჯ","ჰ","ჱ","ჲ",
           "ჳ","ჴ","ჵ","ჶ","ჷ","ჸ","ჹ","ჺ","ჽ","ჾ","ჿ","Ꭰ","Ꭱ","Ꭲ","Ꭳ","Ꭴ",
           "Ꭵ","Ꭶ","Ꭷ","Ꭸ","Ꭹ","Ꭺ","Ꭻ","Ꭼ","Ꭽ","Ꭾ","Ꭿ","Ꮀ","Ꮁ","Ꮂ","Ꮃ","Ꮄ",
           "Ꮅ","Ꮆ","Ꮇ","Ꮈ","Ꮉ","Ꮊ","Ꮋ","Ꮌ","Ꮍ","Ꮎ","Ꮏ","Ꮐ","Ꮑ","Ꮒ","Ꮓ","Ꮔ",
           "Ꮕ","Ꮖ","Ꮗ","Ꮘ","Ꮙ","Ꮚ","Ꮛ","Ꮜ","Ꮝ","Ꮞ","Ꮟ","Ꮠ","Ꮡ","Ꮢ","Ꮣ","Ꮤ",
           "Ꮥ","Ꮦ","Ꮧ","Ꮨ","Ꮩ","Ꮪ","Ꮫ","Ꮬ","Ꮭ","Ꮮ","Ꮯ","Ꮰ","Ꮱ","Ꮲ","Ꮳ","Ꮴ",
           "Ꮵ","Ꮶ","Ꮷ","Ꮸ","Ꮹ","Ꮺ","Ꮻ","Ꮼ","Ꮽ","Ꮾ","Ꮿ","Ᏸ","Ᏹ","Ᏺ","Ᏻ","Ᏼ",
           "Ᏽ","ᏸ","ᏹ","ᏺ","ᏻ","ᏼ","ᏽ","ᲀ","ᲁ","ᲂ","ᲃ","ᲄ","ᲅ","ᲆ","ᲇ","ᲈ",
           "Ა","Ბ","Გ","Დ","Ე","Ვ","Ზ","Თ","Ი","Კ","Ლ","Მ","Ნ","Ო","Პ","Ჟ",
           "Რ","Ს","Ტ","Უ","Ფ","Ქ","Ღ","Ყ","Შ","Ჩ","Ც","Ძ","Წ","Ჭ","Ხ","Ჯ",
           "Ჰ","Ჱ","Ჲ","Ჳ","Ჴ","Ჵ","Ჶ","Ჷ","Ჸ","Ჹ","Ჺ","Ჽ","Ჾ","Ჿ","ᶀ","ᶁ",
           "ᶂ","ᶃ","ᶄ","ᶅ","ᶆ","ᶇ","ᶈ","ᶉ","ᶊ","ᶋ","ᶌ","ᶍ","ᶎ","ᶏ","ᶐ","ᶑ",
           "ᶒ","ᶓ","ᶔ","ᶕ","ᶖ","ᶗ","ᶘ","ᶙ","ᶚ","Ẁ","ẁ","Ẃ","ẃ","Ẅ","ẅ","Ẇ",
           "ẇ","Ẉ","ẉ","Ẋ","ẋ","Ẍ","ẍ","Ẏ","ẏ","Ẑ","ẑ","Ẓ","ẓ","Ẕ","ẕ","ẖ",
           "ẗ","ẘ","ẙ","ẚ","ẛ","ẜ","ẝ","ẞ","ẟ","Ạ","ạ","Ả","ả","Ấ","ấ","Ầ",
           "ầ","Ẩ","ẩ","Ẫ","ẫ","Ậ","ậ","Ắ","ắ","Ằ","ằ","Ẳ","ẳ","Ẵ","ẵ","Ặ",
           "ặ","Ẹ","ẹ","Ẻ","ẻ","Ẽ","ẽ","Ế","ế","Ề","ề","Ể","ể","Ễ","ễ","Ệ",
           "ệ","Ỉ","ỉ","Ị","ị","Ọ","ọ","Ỏ","ỏ","Ố","ố","Ồ","ồ","Ổ","ổ","Ỗ",
           "ỗ","Ộ","ộ","Ớ","ớ","Ờ","ờ","Ở","ở","Ỡ","ỡ","Ợ","ợ","Ụ","ụ","Ủ",
           "ủ","Ứ","ứ","Ừ","ừ","Ử","ử","Ữ","ữ","Ự","ự","Ỳ","ỳ","Ỵ","ỵ","Ỷ",
           "ỷ","Ỹ","ỹ","Ỻ","ỻ","Ỽ","ỽ","Ỿ","ỿ","ᾀ","ᾁ","ᾂ","ᾃ","ᾄ","ᾅ","ᾆ",
           "ᾇ","ᾈ","ᾉ","ᾊ","ᾋ","ᾌ","ᾍ","ᾎ","ᾏ","ᾐ","ᾑ","ᾒ","ᾓ","ᾔ","ᾕ","ᾖ",
           "ᾗ","ᾘ","ᾙ","ᾚ","ᾛ","ᾜ","ᾝ","ᾞ","ᾟ","ᾠ","ᾡ","ᾢ","ᾣ","ᾤ","ᾥ","ᾦ",
           "ᾧ","ᾨ","ᾩ","ᾪ","ᾫ","ᾬ","ᾭ","ᾮ","ᾯ","ᾰ","ᾱ","ᾲ","ᾳ","ᾴ","ᾶ","ᾷ",
           "Ᾰ","Ᾱ","Ὰ","Ά","ᾼ","ι","ῂ","ῃ","ῄ","ῆ","ῇ","Ὲ","Έ","Ὴ","Ή","ῌ",
           "ῐ","ῑ","ῒ","ΐ","ῖ","ῗ","Ῐ","Ῑ","Ὶ","Ί","ῠ","ῡ","ῢ","ΰ","ῤ","ῥ",
           "ῦ","ῧ","Ῠ","Ῡ","Ὺ","Ύ","Ῥ","ῲ","ῳ","ῴ","ῶ","ῷ","Ὸ","Ό","Ὼ","Ώ",
           "ῼ","Ↄ","ↄ","Ⓐ","Ⓑ","Ⓒ","Ⓓ","Ⓔ","Ⓕ","Ⓖ","Ⓗ","Ⓘ","Ⓙ","Ⓚ","Ⓛ","Ⓜ",
           "Ⓝ","Ⓞ","Ⓟ","Ⓠ","Ⓡ","Ⓢ","Ⓣ","Ⓤ","Ⓥ","Ⓦ","Ⓧ","Ⓨ","Ⓩ","ⓐ","ⓑ","ⓒ",
           "ⓓ","ⓔ","ⓕ","ⓖ","ⓗ","ⓘ","ⓙ","ⓚ","ⓛ","ⓜ","ⓝ","ⓞ","ⓟ","ⓠ","ⓡ","ⓢ",
           "ⓣ","ⓤ","ⓥ","ⓦ","ⓧ","ⓨ","ⓩ","Ⲁ","ⲁ","Ⲃ","ⲃ","Ⲅ","ⲅ","Ⲇ","ⲇ","Ⲉ",
           "ⲉ","Ⲋ","ⲋ","Ⲍ","ⲍ","Ⲏ","ⲏ","Ⲑ","ⲑ","Ⲓ","ⲓ","Ⲕ","ⲕ","Ⲗ","ⲗ","Ⲙ",
           "ⲙ","Ⲛ","ⲛ","Ⲝ","ⲝ","Ⲟ","ⲟ","Ⲡ","ⲡ","Ⲣ","ⲣ","Ⲥ","ⲥ","Ⲧ","ⲧ","Ⲩ",
           "ⲩ","Ⲫ","ⲫ","Ⲭ","ⲭ","Ⲯ","ⲯ","Ⲱ","ⲱ","Ⲳ","ⲳ","Ⲵ","ⲵ","Ⲷ","ⲷ","Ⲹ",
           "ⲹ","Ⲻ","ⲻ","Ⲽ","ⲽ","Ⲿ","ⲿ","Ⳁ","ⳁ","Ⳃ","ⳃ","Ⳅ","ⳅ","Ⳇ","ⳇ","Ⳉ",
           "ⳉ","Ⳋ","ⳋ","Ⳍ","ⳍ","Ⳏ","ⳏ","Ⳑ","ⳑ","Ⳓ","ⳓ","Ⳕ","ⳕ","Ⳗ","ⳗ","Ⳙ",
           "ⳙ","Ⳛ","ⳛ","Ⳝ","ⳝ","Ⳟ","ⳟ","Ⳡ","ⳡ","Ⳣ","ⳣ","ⳤ","Ⳬ","ⳬ","Ⳮ","ⳮ",
           "Ⳳ","ⳳ","Ꚁ","ꚁ","Ꚃ","ꚃ","Ꚅ","ꚅ","Ꚇ","ꚇ","Ꚉ","ꚉ","Ꚋ","ꚋ","Ꚍ","ꚍ",
           "Ꚏ","ꚏ","Ꚑ","ꚑ","Ꚓ","ꚓ","Ꚕ","ꚕ","Ꚗ","ꚗ","Ꚙ","ꚙ","Ꚛ","ꚛ","Ꞁ","ꞁ",
           "Ꞃ","ꞃ","Ꞅ","ꞅ","Ꞇ","ꞇ","Ꞌ","ꞌ","Ɥ","ꞎ","Ꞑ","ꞑ","Ꞓ","ꞓ","ꞔ","ꞕ",
           "Ꞗ","ꞗ","Ꞙ","ꞙ","Ꞛ","ꞛ","Ꞝ","ꞝ","Ꞟ","ꞟ","Ꞡ","ꞡ","Ꞣ","ꞣ","Ꞥ","ꞥ",
           "Ꞧ","ꞧ","Ꞩ","ꞩ","Ɦ","Ɜ","Ɡ","Ɬ","Ɪ","ꞯ","Ʞ","Ʇ","Ʝ","Ꭓ","Ꞵ","ꞵ",
           "Ꞷ","ꞷ","Ꞹ","ꞹ","Ꞻ","ꞻ","Ꞽ","ꞽ","Ꞿ","ꞿ","Ꟁ","ꟁ","Ꟃ","ꟃ","Ꞔ","Ʂ",
           "Ᶎ","Ꟈ","ꟈ","Ꟊ","ꟊ","Ꟑ","ꟑ","ꟓ","ꟕ","Ꟗ","ꟗ","Ꟙ","ꟙ","Ꟶ","ꟶ","ꟺ",
           "ꮀ","ꮁ","ꮂ","ꮃ","ꮄ","ꮅ","ꮆ","ꮇ","ꮈ","ꮉ","ꮊ","ꮋ","ꮌ","ꮍ","ꮎ","ꮏ",
           "ꮐ","ꮑ","ꮒ","ꮓ","ꮔ","ꮕ","ꮖ","ꮗ","ꮘ","ꮙ","ꮚ","ꮛ","ꮜ","ꮝ","ꮞ","ꮟ",
           "ꮠ","ꮡ","ꮢ","ꮣ","ꮤ","ꮥ","ꮦ","ꮧ","ꮨ","ꮩ","ꮪ","ꮫ","ꮬ","ꮭ","ꮮ","ꮯ",
           "ꮰ","ꮱ","ꮲ","ꮳ","ꮴ","ꮵ","ꮶ","ꮷ","ꮸ","ꮹ","ꮺ","ꮻ","ꮼ","ꮽ","ꮾ","ꮿ" }

\* str.lower() of the capital sigma s[i]: the final form when a cased letter
\* precedes it and none follows, the characters of CaseIgnorable skipped
final_sigma(s, i) ==
    /\ \E j \in 1..(i - 1) :
         /\ s[j] \in Cased
         /\ \A k \in (j + 1)..(i - 1) : s[k] \in CaseIgnorable
    /\ ~ \E j \in (i + 1)..Len(s) :
           /\ s[j] \in Cased
           /\ \A k \in (i + 1)..(j - 1) : s[k] \in CaseIgnorable

\* str.lower() of the character s[i] of s
lower_at(s, i) ==
    IF s[i] = "Σ"
    THEN IF final_sigma(s, i) THEN "ς" ELSE "σ"
    ELSE lower_char(s[i])

\* str.lower()
lower(s) == << >> \o [ i \in 1..Len(s) |-> lower_at(s, i) ]

\* TitleFrom holds every character of the texts that has a title-case form
\* of its own, TitleTo that form, of one character or more, at the same index
TitleFrom == << "a","b","c","d","e","f","g","h","i","j","k","l","m","n","o","p",
                "q","r","s","t","u","v","w","x","y","z","µ","ß","à","á","â","ã",
                "ä","å","æ","ç","è","é","ê","ë","ì","í","î","ï","ð","ñ","ò","ó",
                "ô","õ","ö","ø","ù","ú","û","ü","ý","þ","ÿ","ƀ","ƃ","ƅ","ƈ","ƌ",
                "ƒ","ƕ","ƙ","ƚ","ƞ","ơ","ƣ","ƥ","ƨ","ƭ","ư","ƴ","ƶ","ƹ","ƽ","ƿ",
                "Ǆ","ǆ","Ǉ","ǉ","Ǌ","ǌ","ǎ","ǐ","ǒ","ǔ","ǖ","ǘ","ǚ","ǜ","ǝ","ǟ",
                "ǡ","ǣ","ǥ","ǧ","ǩ","ǫ","ǭ","ǯ","ǰ","Ǳ","ǳ","ǵ","ǹ","ǻ","ǽ","ǿ",
                "ʀ","ʂ","ʃ","ʇ","ʈ","ʉ","ʊ","ʋ","ʌ","ʒ","ʝ","ʞ","ΐ","ά","έ","ή",
                "ί","ΰ","α","β","γ","δ","ε","ζ","η","θ","ι","κ","λ","μ","ν","ξ",
                "ο","π","ρ","ς","σ","τ","υ","φ","χ","ψ","ω","ϊ","ϋ","ό","ύ","ώ",
                "ϐ","ϑ","ϕ","ϖ","ϗ","ϙ","ϛ","ϝ","ϟ","ϡ","ϣ","ϥ","ϧ","ϩ","ϫ","ϭ",
                "ϯ","ϰ","ϱ","ϲ","ϳ","ϵ","ϸ","ϻ","ҁ","ҋ","ҍ","ҏ","ґ","ғ","ҕ","җ",
                "ҙ","қ","ҝ","ҟ","ҡ","ң","ҥ","ҧ","ҩ","ҫ","ҭ","ү","ұ","ҳ","ҵ","ҷ",
                "ҹ","һ","ҽ","ҿ","ӂ","ӄ","ӆ","ӈ","ӊ","ӌ","ӎ","ӏ","ӑ","ӓ","ӕ","ӗ",
                "ә","ӛ","ӝ","ӟ","ӡ","ӣ","ӥ","ӧ","ө","ӫ","ӭ","ӯ","ӱ","ӳ","ӵ","ӷ",
                "ӹ","ӻ","ӽ","ӿ","ր","ց","ւ","փ","ք","օ","ֆ","և","ᏸ","ᏹ","ᏺ","ᏻ",
                "ᏼ","ᏽ","ᲀ","ᲁ","ᲂ","ᲃ","ᲄ","ᲅ","ᲆ","ᲇ","ᲈ","ᶎ","ẁ","ẃ","ẅ","ẇ",
                "ẉ","ẋ","ẍ","ẏ","ẑ","ẓ","ẕ","ẖ","ẗ","ẘ","ẙ","ẚ","ẛ","ạ","ả","ấ",
                "ầ","ẩ","ẫ","ậ","ắ","ằ","ẳ","ẵ","ặ","ẹ","ẻ","ẽ","ế","ề","ể","ễ",
                "ệ","ỉ","ị","ọ","ỏ","ố","ồ","ổ","ỗ","ộ","ớ","ờ","ở","ỡ","ợ","ụ",
                "ủ","ứ","ừ","ử","ữ","ự","ỳ","ỵ","ỷ","ỹ","ỻ","ỽ","ỿ","ᾀ","ᾁ","ᾂ",
                "ᾃ","ᾄ","ᾅ","ᾆ","ᾇ","ᾐ","ᾑ","ᾒ","ᾓ","ᾔ","ᾕ","ᾖ","ᾗ","ᾠ","ᾡ","ᾢ",
                "ᾣ","ᾤ","ᾥ","ᾦ","ᾧ","ᾰ","ᾱ","ᾲ","ᾳ","ᾴ","ᾶ","ᾷ","ι","ῂ","ῃ","ῄ",
                "ῆ","ῇ","ῐ","ῑ","ῒ","ΐ","ῖ","ῗ","ῠ","ῡ","ῢ","ΰ","ῤ","ῥ","ῦ","ῧ",
                "ῲ","ῳ","ῴ","ῶ","ῷ","ↄ","ⓐ","ⓑ","ⓒ","ⓓ","ⓔ","ⓕ","ⓖ","ⓗ","ⓘ","ⓙ",
                "ⓚ","ⓛ","ⓜ","ⓝ","ⓞ","ⓟ","ⓠ","ⓡ","ⓢ","ⓣ","ⓤ","ⓥ","ⓦ","ⓧ","ⓨ","ⓩ",
                "ⲁ","ⲃ","ⲅ","ⲇ","ⲉ","ⲋ","ⲍ","ⲏ","ⲑ","ⲓ","ⲕ","ⲗ","ⲙ","ⲛ","ⲝ","ⲟ",
                "ⲡ","ⲣ","ⲥ","ⲧ","ⲩ","ⲫ","ⲭ","ⲯ","ⲱ","ⲳ","ⲵ","ⲷ","ⲹ","ⲻ","ⲽ","ⲿ",
                "ⳁ","ⳃ","ⳅ","ⳇ","ⳉ","ⳋ","ⳍ","ⳏ","ⳑ","ⳓ","ⳕ","ⳗ","ⳙ","ⳛ","ⳝ","ⳟ",
                "ⳡ","ⳣ","ⳬ","ⳮ","ⳳ","ꚁ","ꚃ","ꚅ","ꚇ","ꚉ","ꚋ","ꚍ","ꚏ","ꚑ","ꚓ","ꚕ",
                "ꚗ","ꚙ","ꚛ","ꞁ","ꞃ","ꞅ","ꞇ","ꞌ","ꞑ","ꞓ","ꞔ","ꞗ","ꞙ","ꞛ","ꞝ","ꞟ",
                "ꞡ","ꞣ","ꞥ","ꞧ","ꞩ","ꞵ","ꞷ","ꞹ","ꞻ","ꞽ","ꞿ","ꟁ","ꟃ","ꟈ","ꟊ","ꟑ",
                "ꟗ","ꟙ","ꟶ","ꮀ","ꮁ","ꮂ","ꮃ","ꮄ","ꮅ","ꮆ","ꮇ","ꮈ","ꮉ","ꮊ","ꮋ","ꮌ",
                "ꮍ","ꮎ","ꮏ","ꮐ","ꮑ","ꮒ","ꮓ","ꮔ","ꮕ","ꮖ","ꮗ","ꮘ","ꮙ","ꮚ","ꮛ","ꮜ",
                "ꮝ","ꮞ","ꮟ","ꮠ","ꮡ","ꮢ","ꮣ","ꮤ","ꮥ","ꮦ","ꮧ","ꮨ","ꮩ","ꮪ","ꮫ","ꮬ",
                "ꮭ","ꮮ","ꮯ","ꮰ","ꮱ","ꮲ","ꮳ","ꮴ","ꮵ","ꮶ","ꮷ","ꮸ","ꮹ","ꮺ","ꮻ","ꮼ",
                "ꮽ","ꮾ","ꮿ" >>

TitleTo == << <<"A">>,<<"B">>,<<"C">>,<<"D">>,<<"E">>,<<"F">>,<<"G">>,<<"H">>,<<"I">>,<<"J">>,
              <<"K">>,<<"L">>,<<"M">>,<<"N">>,<<"O">>,<<"P">>,<<"Q">>,<<"R">>,<<"S">>,<<"T">>,
              <<"U">>,<<"V">>,<<"W">>,<<"X">>,<<"Y">>,<<"Z">>,<<"Μ">>,<<"S","s">>,<<"À">>,<<"Á">>,
              <<"Â">>,<<"Ã">>,<<"Ä">>,<<"Å">>,<<"Æ">>,<<"Ç">>,<<"È">>,<<"É">>,<<"Ê">>,<<"Ë">>,
              <<"Ì">>,<<"Í">>,<<"Î">>,<<"Ï">>,<<"Ð">>,<<"Ñ">>,<<"Ò">>,<<"Ó">>,<<"Ô">>,<<"Õ">>,
              <<"Ö">>,<<"Ø">>,<<"Ù">>,<<"Ú">>,<<"Û">>,<<"Ü">>,<<"Ý">>,<<"Þ">>,<<"U+0178">>,<<"U+0243">>,
              <<"Ƃ">>,<<"Ƅ">>,<<"Ƈ">>,<<"Ƌ">>,<<"Ƒ">>,<<"Ƕ">>,<<"Ƙ">>,<<"U+023D">>,<<"U+0220">>,<<"Ơ">>,
              <<"Ƣ">>,<<"Ƥ">>,<<"Ƨ">>,<<"Ƭ">>,<<"Ư">>,<<"Ƴ">>,<<"Ƶ">>,<<"Ƹ">>,<<"Ƽ">>,<<"Ƿ">>,
              <<"ǅ">>,<<"ǅ">>,<<"ǈ">>,<<"ǈ">>,<<"ǋ">>,<<"ǋ">>,<<"Ǎ">>,<<"Ǐ">>,<<"Ǒ">>,<<"Ǔ">>,
              <<"Ǖ">>,<<"Ǘ">>,<<"Ǚ">>,<<"Ǜ">>,<<"Ǝ">>,<<"Ǟ">>,<<"Ǡ">>,<<"Ǣ">>,<<"Ǥ">>,<<"Ǧ">>,
              <<"Ǩ">>,<<"Ǫ">>,<<"Ǭ">>,<<"Ǯ">>,<<"J","U+030C">>,<<"ǲ">>,<<"ǲ">>,<<"Ǵ">>,<<"Ǹ">>,<<"Ǻ">>,
              <<"Ǽ">>,<<"Ǿ">>,<<"Ʀ">>,<<"Ʂ">>,<<"Ʃ">>,<<"Ʇ">>,<<"Ʈ">>,<<"U+0244">>,<<"Ʊ">>,<<"Ʋ">>,
              <<"U+0245">>,<<"Ʒ">>,<<"Ʝ">>,<<"Ʞ">>,<<"Ι","U+0308","U+0301">>,<<"Ά">>,<<"Έ">>,<<"Ή">>,<<"Ί">>,<<"Υ","U+0308","U+0301">>,
              <<"Α">>,<<"Β">>,<<"Γ">>,<<"Δ">>,<<"Ε">>,<<"Ζ">>,<<"Η">>,<<"Θ">>,<<"Ι">>,<<"Κ">>,
              <<"Λ">>,<<"Μ">>,<<"Ν">>,<<"Ξ">>,<<"Ο">>,<<"Π">>,<<"Ρ">>,<<"Σ">>,<<"Σ">>,<<"Τ">>,
              <<"Υ">>,<<"Φ">>,<<"Χ">>,<<"Ψ">>,<<"Ω">>,<<"Ϊ">>,<<"Ϋ">>,<<"Ό">>,<<"Ύ">>,<<"Ώ">>,
              <<"Β">>,<<"Θ">>,<<"Φ">>,<<"Π">>,<<"Ϗ">>,<<"Ϙ">>,<<"Ϛ">>,<<"Ϝ">>,<<"Ϟ">>,<<"Ϡ">>,
              <<"Ϣ">>,<<"Ϥ">>,<<"Ϧ">>,<<"Ϩ">>,<<"Ϫ">>,<<"Ϭ">>,<<"Ϯ">>,<<"Κ">>,<<"Ρ">>,<<"Ϲ">>,
              <<"U+037F">>,<<"Ε">>,<<"Ϸ">>,<<"Ϻ">>,<<"Ҁ">>,<<"Ҋ">>,<<"Ҍ">>,<<"Ҏ">>,<<"Ґ">>,<<"Ғ">>,
              <<"Ҕ">>,<<"Җ">>,<<"Ҙ">>,<<"Қ">>,<<"Ҝ">>,<<"Ҟ">>,<<"Ҡ">>,<<"Ң">>,<<"Ҥ">>,<<"Ҧ">>,
              <<"Ҩ">>,<<"Ҫ">>,<<"Ҭ">>,<<"Ү">>,<<"Ұ">>,<<"Ҳ">>,<<"Ҵ">>,<<"Ҷ">>,<<"Ҹ">>,<<"Һ">>,
              <<"Ҽ">>,<<"Ҿ">>,<<"Ӂ">>,<<"Ӄ">>,<<"Ӆ">>,<<"Ӈ">>,<<"Ӊ">>,<<"Ӌ">>,<<"Ӎ">>,<<"Ӏ">>,
              <<"Ӑ">>,<<"Ӓ">>,<<"Ӕ">>,<<"Ӗ">>,<<"Ә">>,<<"Ӛ">>,<<"Ӝ">>,<<"Ӟ">>,<<"Ӡ">>,<<"Ӣ">>,
              <<"Ӥ">>,<<"Ӧ">>,<<"Ө">>,<<"Ӫ">>,<<"Ӭ">>,<<"Ӯ">>,<<"Ӱ">>,<<"Ӳ">>,<<"Ӵ">>,<<"Ӷ">>,
              <<"Ӹ">>,<<"Ӻ">>,<<"Ӽ">>,<<"Ӿ">>,<<"U+0550">>,<<"U+0551">>,<<"U+0552">>,<<"U+0553">>,<<"U+0554">>,<<"U+0555">>,
              <<"U+0556">>,<<"U+0535","ւ">>,<<"Ᏸ">>,<<"Ᏹ">>,<<"Ᏺ">>,<<"Ᏻ">>,<<"Ᏼ">>,<<"Ᏽ">>,<<"U+0412">>,<<"U+0414">>,
              <<"U+041E">>,<<"U+0421">>,<<"U+0422">>,<<"U+0422">>,<<"U+042A">>,<<"U+0462">>,<<"U+A64A">>,<<"Ᶎ">>,<<"Ẁ">>,<<"Ẃ">>,
              <<"Ẅ">>,<<"Ẇ">>,<<"Ẉ">>,<<"Ẋ">>,<<"Ẍ">>,<<"Ẏ">>,<<"Ẑ">>,<<"Ẓ">>,<<"Ẕ">>,<<"H","U+0331">>,
              <<"T","U+0308">>,<<"W","U+030A">>,<<"Y","U+030A">>,<<"A","ʾ">>,<<"U+1E60">>,<<"Ạ">>,<<"Ả">>,<<"Ấ">>,<<"Ầ">>,<<"Ẩ">>,
              <<"Ẫ">>,<<"Ậ">>,<<"Ắ">>,<<"Ằ">>,<<"Ẳ">>,<<"Ẵ">>,<<"Ặ">>,<<"Ẹ">>,<<"Ẻ">>,<<"Ẽ">>,
              <<"Ế">>,<<"Ề">>,<<"Ể">>,<<"Ễ">>,<<"Ệ">>,<<"Ỉ">>,<<"Ị">>,<<"Ọ">>,<<"Ỏ">>,<<"Ố">>,
              <<"Ồ">>,<<"Ổ">>,<<"Ỗ">>,<<"Ộ">>,<<"Ớ">>,<<"Ờ">>,<<"Ở">>,<<"Ỡ">>,<<"Ợ">>,<<"Ụ">>,
              <<"Ủ">>,<<"Ứ">>,<<"Ừ">>,<<"Ử">>,<<"Ữ">>,<<"Ự">>,<<"Ỳ">>,<<"Ỵ">>,<<"Ỷ">>,<<"Ỹ">>,
              <<"Ỻ">>,<<"Ỽ">>,<<"Ỿ">>,<<"ᾈ">>,<<"ᾉ">>,<<"ᾊ">>,<<"ᾋ">>,<<"ᾌ">>,<<"ᾍ">>,<<"ᾎ">>,
              <<"ᾏ">>,<<"ᾘ">>,<<"ᾙ">>,<<"ᾚ">>,<<"ᾛ">>,<<"ᾜ">>,<<"ᾝ">>,<<"ᾞ">>,<<"ᾟ">>,<<"ᾨ">>,
              <<"ᾩ">>,<<"ᾪ">>,<<"ᾫ">>,<<"ᾬ">>,<<"ᾭ">>,<<"ᾮ">>,<<"ᾯ">>,<<"Ᾰ">>,<<"Ᾱ">>,<<"Ὰ","U+0345">>,
              <<"ᾼ">>,<<"Ά","U+0345">>,<<"Α","U+0342">>,<<"Α","U+0342","U+0345">>,<<"Ι">>,<<"Ὴ","U+0345">>,<<"ῌ">>,<<"Ή","U+0345">>,<<"Η","U+0342">>,<<"Η","U+0342","U+0345">>,
              <<"Ῐ">>,<<"Ῑ">>,<<"Ι","U+0308","U+0300">>,<<"Ι","U+0308","U+0301">>,<<"Ι","U+0342">>,<<"Ι","U+0308","U+0342">>,<<"Ῠ">>,<<"Ῡ">>,<<"Υ","U+0308","U+0300">>,<<"Υ","U+0308","U+0301">>,
              <<"Ρ","U+0313">>,<<"Ῥ">>,<<"Υ","U+0342">>,<<"Υ","U+0308","U+0342">>,<<"Ὼ","U+0345">>,<<"ῼ">>,<<"Ώ","U+0345">>,<<"Ω","U+0342">>,<<"Ω","U+0342","U+0345">>,<<"Ↄ">>,
              <<"Ⓐ">>,<<"Ⓑ">>,<<"Ⓒ">>,<<"Ⓓ">>,<<"Ⓔ">>,<<"Ⓕ">>,<<"Ⓖ">>,<<"Ⓗ">>,<<"Ⓘ">>,<<"Ⓙ">>,
              <<"Ⓚ">>,<<"Ⓛ">>,<<"Ⓜ">>,<<"Ⓝ">>,<<"Ⓞ">>,<<"Ⓟ">>,<<"Ⓠ">>,<<"Ⓡ">>,<<"Ⓢ">>,<<"Ⓣ">>,
              <<"Ⓤ">>,<<"Ⓥ">>,<<"Ⓦ">>,<<"Ⓧ">>,<<"Ⓨ">>,<<"Ⓩ">>,<<"Ⲁ">>,<<"Ⲃ">>,<<"Ⲅ">>,<<"Ⲇ">>,
              <<"Ⲉ">>,<<"Ⲋ">>,<<"Ⲍ">>,<<"Ⲏ">>,<<"Ⲑ">>,<<"Ⲓ">>,<<"Ⲕ">>,<<"Ⲗ">>,<<"Ⲙ">>,<<"Ⲛ">>,
              <<"Ⲝ">>,<<"Ⲟ">>,<<"Ⲡ">>,<<"Ⲣ">>,<<"Ⲥ">>,<<"Ⲧ">>,<<"Ⲩ">>,<<"Ⲫ">>,<<"Ⲭ">>,<<"Ⲯ">>,
              <<"Ⲱ">>,<<"Ⲳ">>,<<"Ⲵ">>,<<"Ⲷ">>,<<"Ⲹ">>,<<"Ⲻ">>,<<"Ⲽ">>,<<"Ⲿ">>,<<"Ⳁ">>,<<"Ⳃ">>,
              <<"Ⳅ">>,<<"Ⳇ">>,<<"Ⳉ">>,<<"Ⳋ">>,<<"Ⳍ">>,<<"Ⳏ">>,<<"Ⳑ">>,<<"Ⳓ">>,<<"Ⳕ">>,<<"Ⳗ">>,
              <<"Ⳙ">>,<<"Ⳛ">>,<<"Ⳝ">>,<<"Ⳟ">>,<<"Ⳡ">>,<<"Ⳣ">>,<<"Ⳬ">>,<<"Ⳮ">>,<<"Ⳳ">>,<<"Ꚁ">>,
              <<"Ꚃ">>,<<"Ꚅ">>,<<"Ꚇ">>,<<"Ꚉ">>,<<"Ꚋ">>,<<"Ꚍ">>,<<"Ꚏ">>,<<"Ꚑ">>,<<"Ꚓ">>,<<"Ꚕ">>,
              <<"Ꚗ">>,<<"Ꚙ">>,<<"Ꚛ">>,<<"Ꞁ">>,<<"Ꞃ">>,<<"Ꞅ">>,<<"Ꞇ">>,<<"Ꞌ">>,<<"Ꞑ">>,<<"Ꞓ">>,
              <<"Ꞔ">>,<<"Ꞗ">>,<<"Ꞙ">>,<<"Ꞛ">>,<<"Ꞝ">>,<<"Ꞟ">>,<<"Ꞡ">>,<<"Ꞣ">>,<<"Ꞥ">>,<<"Ꞧ">>,
              <<"Ꞩ">>,<<"Ꞵ">>,<<"Ꞷ">>,<<"Ꞹ">>,<<"Ꞻ">>,<<"Ꞽ">>,<<"Ꞿ">>,<<"Ꟁ">>,<<"Ꟃ">>,<<"Ꟈ">>,
              <<"Ꟊ">>,<<"Ꟑ">>,<<"Ꟗ">>,<<"Ꟙ">>,<<"Ꟶ">>,<<"Ꮀ">>,<<"Ꮁ">>,<<"Ꮂ">>,<<"Ꮃ">>,<<"Ꮄ">>,
              <<"Ꮅ">>,<<"Ꮆ">>,<<"Ꮇ">>,<<"Ꮈ">>,<<"Ꮉ">>,<<"Ꮊ">>,<<"Ꮋ">>,<<"Ꮌ">>,<<"Ꮍ">>,<<"Ꮎ">>,
              <<"Ꮏ">>,<<"Ꮐ">>,<<"Ꮑ">>,<<"Ꮒ">>,<<"Ꮓ">>,<<"Ꮔ">>,<<"Ꮕ">>,<<"Ꮖ">>,<<"Ꮗ">>,<<"Ꮘ">>,
              <<"Ꮙ">>,<<"Ꮚ">>,<<"Ꮛ">>,<<"Ꮜ">>,<<"Ꮝ">>,<<"Ꮞ">>,<<"Ꮟ">>,<<"Ꮠ">>,<<"Ꮡ">>,<<"Ꮢ">>,
              <<"Ꮣ">>,<<"Ꮤ">>,<<"Ꮥ">>,<<"Ꮦ">>,<<"Ꮧ">>,<<"Ꮨ">>,<<"Ꮩ">>,<<"Ꮪ">>,<<"Ꮫ">>,<<"Ꮬ">>,
              <<"Ꮭ">>,<<"Ꮮ">>,<<"Ꮯ">>,<<"Ꮰ">>,<<"Ꮱ">>,<<"Ꮲ">>,<<"Ꮳ">>,<<"Ꮴ">>,<<"Ꮵ">>,<<"Ꮶ">>,
              <<"Ꮷ">>,<<"Ꮸ">>,<<"Ꮹ">>,<<"Ꮺ">>,<<"Ꮻ">>,<<"Ꮼ">>,<<"Ꮽ">>,<<"Ꮾ">>,<<"Ꮿ">> >>

\* the index of each character of TitleFrom, as a table
TitleIndex ==
    << >> @@ [ c \in { TitleFrom[i] : i \in 1..Len(TitleFrom) } |->
                 CHOOSE i \in 1..Len(TitleFrom) : TitleFrom[i] = c ]

\* the title-case form of one character
title_char(c) == IF c \in DOMAIN TitleIndex THEN TitleTo[TitleIndex[c]] ELSE << c >>

\* the cased characters that are skipped around a capital sigma (Cased and
\* Case_Ignorable)
CasedIgnorable == { "ʰ","ʱ","ʲ","ʳ","ʴ","ʵ","ʶ","ʷ","ʸ","ˀ","ˁ","ˠ","ˡ","ˢ","ˣ","ˤ",
                    "ᶛ","ᶜ","ᶝ","ᶞ","ᶟ","ᶠ","ᶡ","ᶢ","ᶣ","ᶤ","ᶥ","ᶦ","ᶧ","ᶨ","ᶩ","ᶪ",
                    "ᶫ","ᶬ","ᶭ","ᶮ","ᶯ","ᶰ","ᶱ","ᶲ","ᶳ","ᶴ","ᶵ","ᶶ","ᶷ","ᶸ","ᶹ","ᶺ",
                    "ᶻ","ᶼ","ᶽ","ᶾ","ᶿ","ₐ","ₑ","ₒ","ₓ","ₔ","ₕ","ₖ","ₗ","ₘ","ₙ","ₚ",
                    "ₛ","ₜ","ꚜ","ꚝ","ꟸ","ꟹ" }

\* str.title() from the character s[i] on: a character after a cased one is
\* lowered, any other is given its title-case form
RECURSIVE title_from(_, _)
title_from(s, i) ==
    IF i > Len(s) THEN << >>
    ELSE (IF i > 1 /\ s[i - 1] \in Cased \cup CasedIgnorable
          THEN << lower_at(s, i) >>
          ELSE title_char(s[i]))
         \o title_from(s, i + 1)

\* str.title()
title(s) == title_from(s, 1)

\* `sub in s`
contains(sub, s) ==
    \E i \in 0..(Len(s) - Len(sub)) : \A j \in 1..Len(sub) : s[i + j] = sub[j]

\* str.isspace() of one character: the characters str.strip() removes. These
\* are U+0009..U+000D, U+001C..U+001F, U+0020, U+0085, U+00A0 and U+1680; the
\* other Unicode spaces (U+2000..U+200A, U+2028, U+2029, U+202F, U+205F,
\* U+3000) cannot be written in a string of this module and are in no text of it
WhiteSpace == { "\t", "\n", "", "\f", "\r", "", "", "", "", " ", "", " ", " " }

IsSpace(c) == c \in WhiteSpace

RECURSIVE lstrip(_)
lstrip(s) == IF s # << >> /\ IsSpace(Head(s)) THEN lstrip(Tail(s)) ELSE s

RECURSIVE rstrip(_)
rstrip(s) ==
    IF s # << >> /\ IsSpace(s[Len(s)]) THEN rstrip(SubSeq(s, 1, Len(s) - 1)) ELSE s

\* str.strip()
strip(s) == rstrip(lstrip(s))

-----------------------------------------------------------------------------
(* Python dict operations *)

\* key in d
Has(d, k) == k \in DOMAIN d

\* d.get(k, default)
Get(d, k, default) == IF k \in DOMAIN d THEN d[k] ELSE default

\* d[k] = v
Put(d, k, v) == (k :> v) @@ d

\* d.update(e): every key of e replaces d's value for that key
update(d, e) == e @@ d

\* {}: the dict with no keys
EmptyDict == << >>

\* bool(v) of a value stored under period/timing: a str is true iff non-empty
Truthy(v) == v # ""

\* any(d.get(field) for field in fields)
AnyField(d, fields) ==
    \E i \in 1..Len(fields) : Has(d, fields[i]) /\ Truthy(d[fields[i]])

-----------------------------------------------------------------------------
(* config.keywords (config/settings.py) *)

flow_light ==
    { <<"l","i","g","h","t"," ","f","l","o","w">>,
      <<"l","i","g","h","t"," ","p","e","r","i","o","d">>,
      <<"l","i","g","h","t"," ","b","l","e","e","d","i","n","g">> }
flow_medium ==
    { <<"m","e","d","i","u","m"," ","f","l","o","w">>,
      <<"n","o","r","m","a","l"," ","f","l","o","w">>,
      <<"r","e","g","u","l","a","r"," ","f","l","o","w">> }
flow_heavy ==
    { <<"h","e","a","v","y"," ","f","l","o","w">>,
      <<"h","e","a","v","y"," ","p","e","r","i","o","d">>,
      <<"h","e","a","v","y"," ","b","l","e","e","d","i","n","g">> }

\* the unusual_symptoms list of extract_period_info and _check_required_fields
unusual_symptoms ==
    { <<"s","e","v","e","r","e">>,
      <<"e","x","t","r","e","m","e">>,
      <<"u","n","u","s","u","a","l">>,
      <<"a","b","n","o","r","m","a","l">>,
      <<"h","e","a","v","y"," ","b","l","e","e","d","i","n","g">>,
      <<"i","n","t","e","n","s","e"," ","p","a","i","n">>,
      <<"f","a","i","n","t","i","n","g">>,
      <<"d","i","z","z","i","n","e","s","s">>,
      <<"f","e","v","e","r">>,
      <<"v","o","m","i","t","i","n","g">> }

\* the symptom types and severities of the inputs below
Cramps == <<"c","r","a","m","p","s">>
Fever == <<"F","e","v","e","r">>
Mild == <<"m","i","l","d">>
Severe == <<"s","e","v","e","r","e">>

\* any(us in s.lower() for us in unusual_symptoms)
ScanUnusual(s) == LET low == lower(s) IN \E us \in unusual_symptoms : contains(us, low)

\* ScanUnusual of the strings of the inputs, computed once
ScanTable == [ s \in { << >>, Cramps, Fever, Mild, Severe } |-> ScanUnusual(s) ]

\* ScanUnusual(s), looked up when s is a string of the inputs
MatchesUnusual(s) == IF s \in DOMAIN ScanTable THEN ScanTable[s] ELSE ScanUnusual(s)

-----------------------------------------------------------------------------
(* extract_period_info (utils/text_processor.py) *)

\* str(e) of the exception the OpenAI call raised
ErrorText == "openai error"

\* str(e) of the exception eval() raised on the reply `not a dict`
EvalErrorText == "invalid syntax (<string>, line 1)"

\* The except branch: keyword matching on the text, confidence 0.5 (as percent)
fallback_extract(text) ==
    LET base == [ period |-> EmptyDict,
                  symptoms |-> << >>,
                  mood |-> << >>,
                  timing |-> EmptyDict,
                  confidence |-> 50,
                  raw_text |-> strip(text),
                  error |-> ErrorText,
                  unusual_symptoms |-> FALSE ]
        low == lower(text)
    IN  IF \E keyword \in flow_light : contains(keyword, low)
        THEN Put(base, "period", [flow |-> "light"])
        ELSE IF \E keyword \in flow_medium : contains(keyword, low)
        THEN Put(base, "period", [flow |-> "medium"])
        ELSE IF \E keyword \in flow_heavy : contains(keyword, low)
        THEN Put(base, "period", [flow |-> "heavy"])
        ELSE base

\* The try branch after eval(): the flag is reset to False, then set when a
\* symptom's type or severity contains a word of the list
flag_unusual(content) ==
    LET r0 == Put(content, "unusual_symptoms", FALSE)
    IN  IF Has(r0, "symptoms")
           /\ \E i \in 1..Len(r0["symptoms"]) :
                \/ MatchesUnusual(Get(r0["symptoms"][i], "type", << >>))
                \/ MatchesUnusual(Get(r0["symptoms"][i], "severity", << >>))
        THEN Put(r0, "unusual_symptoms", TRUE)
        ELSE r0

SystemExitRaised == "raised SystemExit"

\* The try/except of lines 88-145. llm is what the chat completion and the
\* eval() of its reply did:
\*   [kind |-> "ok", content |-> the dict eval() made of the reply];
\*   [kind |-> "fail"]: the call raised an Exception;
\*   [kind |-> "malformed"]: eval() of the reply, or the use of its value as a
\*       dict of the prompt's shape, raised an Exception;
\*   [kind |-> "exit"]: the reply is evaluated as code and is a call of the
\*       site's exit() or quit(), which closes sys.stdin and raises SystemExit;
\*       SystemExit is no Exception and is not caught at line 124;
\*   [kind |-> "sys_exit"]: the reply is a call of sys.exit(n), which raises
\*       SystemExit and leaves sys.stdin alone.
\* A reply that changes the program's state while it is evaluated is not among
\* the replies of the model.
extract_period_info(text, llm) ==
    IF llm.kind = "ok"
    THEN [ outcome |-> "returned", record |-> flag_unusual(llm.content) ]
    ELSE IF llm.kind \in { "exit", "sys_exit" }
    THEN [ outcome |-> SystemExitRaised ]
    ELSE IF llm.kind = "malformed"
    THEN [ outcome |-> "returned",
           record |-> Put(fallback_extract(text), "error", EvalErrorText) ]
    ELSE [ outcome |-> "returned", record |-> fallback_extract(text) ]

ClientError == "raised in openai.OpenAI()"

\* extract_period_info(text) as a call: the client is constructed before the
\* try (line 23), so a client that cannot be constructed raises out of the
\* function; after that the try/except of lines 88-145
call_extract_period_info(text, client_ok, llm) ==
    IF ~client_ok
    THEN [ outcome |-> ClientError ]
    ELSE extract_period_info(text, llm)

\* sys.stdin after that call: eval() of a reply that calls exit() or quit()
\* (line 97) closes it, and nothing opens it again
stdin_after_extract(client_ok, llm) ==
    IF client_ok /\ llm.kind = "exit" THEN "closed" ELSE stdin

-----------------------------------------------------------------------------
(* VoiceConversationHandler: pure helpers *)

\* self.required_fields
required_fields == [ period |-> << "status", "flow" >>, timing |-> << "date" >> ]

\* a check that wants both period.status and period.flow
check_requiring_all_fields(data) ==
    LET period_data == Get(data, "period", EmptyDict)
        timing_data == Get(data, "timing", EmptyDict)
        m1 == IF ~(\A i \in 1..Len(required_fields["period"]) :
                     Has(period_data, required_fields["period"][i])
                     /\ Truthy(period_data[required_fields["period"][i]]))
              THEN << "period" >> ELSE << >>
        m2 == IF ~AnyField(timing_data, required_fields["timing"])
              THEN Append(m1, "date") ELSE m1
        d2 == IF Has(data, "symptoms")
                 /\ \E i \in 1..Len(data["symptoms"]) :
                      MatchesUnusual(Get(data["symptoms"][i], "type", << >>))
              THEN Put(data, "unusual_symptoms", TRUE)
              ELSE data
    IN  [ missing |-> m2, data |-> d2 ]

\* _check_required_fields: returns the missing list; sets data["unusual_symptoms"]
\* when a symptom's type contains a word of the list (data is changed in place)
check_required_fields(data) ==
    LET period_data == Get(data, "period", EmptyDict)
        timing_data == Get(data, "timing", EmptyDict)
        m1 == IF ~AnyField(period_data, required_fields["period"])
              THEN << "period" >> ELSE << >>
        m2 == IF ~AnyField(timing_data, required_fields["timing"])
              THEN Append(m1, "date") ELSE m1
        d2 == IF Has(data, "symptoms")
                 /\ \E i \in 1..Len(data["symptoms"]) :
                      MatchesUnusual(Get(data["symptoms"][i], "type", << >>))
              THEN Put(data, "unusual_symptoms", TRUE)
              ELSE data
    IN  [ missing |-> m2, data |-> d2 ]

\* x in list
InList(x, list) == \E i \in 1..Len(list) : list[i] = x

FlowQuestion == "Could you tell me about the flow intensity of your period? (light, medium, heavy)"
StatusQuestion == "Could you confirm if you started or ended your period?"
DateQuestion == "Could you tell me the date or when this happened?"
GenericQuestion == "Is there anything else you'd like to add about your symptoms or mood?"

\* a generator that looks at the date before the period
generate_date_first(missing, current_data) ==
    IF missing = << >> THEN ""
    ELSE IF InList("date", missing) THEN DateQuestion
    ELSE IF InList("period", missing)
         THEN IF InList("flow", missing) THEN FlowQuestion ELSE StatusQuestion
    ELSE GenericQuestion

\* a generator without the test for an empty list
generate_without_empty_test(missing, current_data) ==
    IF InList("period", missing)
    THEN IF InList("flow", missing) THEN FlowQuestion ELSE StatusQuestion
    ELSE IF InList("date", missing) THEN DateQuestion
    ELSE GenericQuestion

\* _generate_followup_question
generate_followup_question(missing, current_data) ==
    IF missing = << >> THEN ""
    ELSE IF InList("period", missing)
         THEN IF InList("flow", missing) THEN FlowQuestion ELSE StatusQuestion
    ELSE IF InList("date", missing) THEN DateQuestion
    ELSE GenericQuestion

-----------------------------------------------------------------------------
(* PeriodDataStore (utils/data_store.py): each method as an operator from the
   store before the call to the store after it and the call's outcome *)

Returned == "returned"
SessionNotFound == "ValueError: Session not found"
NoActiveSession == "ValueError: No active session"

\* PeriodDataStore.__init__
EmptyStore == [ sessions |-> EmptyDict, current_session_id |-> None ]

\* str(uuid.uuid4()): any id. The library draws 122 random bits and
\* create_session does not test the id against the store, so nothing in the
\* code keeps the id of a session the store holds from being drawn again.
uuid4 == SessionIds

\* The ids the calls of this model draw. An id the store holds is drawn with a
\* probability below 2^-100 and is left out of the inputs: every statement
\* about create_session is a statement about calls whose id is new to the
\* store. The ids are interchangeable, so the first one stands for all.
drawn_ids(s) ==
    LET free == uuid4 \ DOMAIN s.sessions
    IN  { CHOOSE id \in free : \A x \in free : id <= x }

\* str(uuid.uuid4()) in the name of an audio file (app.py line 116, server.py
\* lines 102 and 122): such an id is no key of the store and the code compares it with
\* nothing, so that one id stands for every id drawn
file_ids == { CHOOSE id \in uuid4 : TRUE }

\* a create_session that closes the session that was current before
create_session_ending_current(s, id, now) ==
    LET closed == IF s.current_session_id \in DOMAIN s.sessions
                  THEN Put(s.sessions, s.current_session_id,
                           Put(s.sessions[s.current_session_id], "status", "completed"))
                  ELSE s.sessions
    IN  [ store |-> [ sessions |-> Put(closed, id,
                                       [ session_id |-> id,
                                         start_time |-> now,
                                         logs |-> << >>,
                                         status |-> "active" ]),
                      current_session_id |-> id ],
          outcome |-> Returned,
          value |-> id ]

\* create_session, lines 14-19: the session is written
create_session_write(s, id, now) ==
    [ s EXCEPT !.sessions = Put(s.sessions, id,
                                [ session_id |-> id,
                                  start_time |-> now,
                                  logs |-> << >>,
                                  status |-> "active" ]) ]

\* create_session, line 20: the session is made the current one
create_session_set_current(s, id) ==
    [ s EXCEPT !.current_session_id = id ]

create_session(s, id, now) ==
    [ store |-> create_session_set_current(create_session_write(s, id, now), id),
      outcome |-> Returned,
      value |-> id ]

\* an add_log_to_session that ignores an unknown id the way end_session does
add_log_ignoring_unknown(s, sid, log_data, now) ==
    IF sid \notin DOMAIN s.sessions
    THEN [ store |-> s, outcome |-> Returned ]
    ELSE [ store |-> [ s EXCEPT !.sessions =
                         Put(s.sessions, sid,
                             Put(s.sessions[sid], "logs",
                                 Append(s.sessions[sid]["logs"],
                                        [ timestamp |-> now, data |-> log_data ]))) ],
           outcome |-> Returned ]

add_log_to_session(s, sid, log_data, now) ==
    IF sid \notin DOMAIN s.sessions
    THEN [ store |-> s, outcome |-> SessionNotFound ]
    ELSE [ store |-> [ s EXCEPT !.sessions =
                         Put(s.sessions, sid,
                             Put(s.sessions[sid], "logs",
                                 Append(s.sessions[sid]["logs"],
                                        [ timestamp |-> now, data |-> log_data ]))) ],
           outcome |-> Returned ]

\* a check that looks at the period only
check_for_missing_period_only(log_data) ==
    IF ~AnyField(Get(log_data, "period", EmptyDict), << "status", "flow" >>) THEN TRUE
    ELSE FALSE

\* _check_for_missing_data
check_for_missing_data(log_data) ==
    IF ~AnyField(Get(log_data, "period", EmptyDict), << "status", "flow" >>) THEN TRUE
    ELSE IF ~AnyField(Get(log_data, "timing", EmptyDict), << "date" >>) THEN TRUE
    ELSE FALSE

\* an add_log_to_history that puts the new entry in front of the others
add_log_in_front(s, log_data, now) ==
    IF s.current_session_id \notin DOMAIN s.sessions
    THEN [ store |-> s, outcome |-> NoActiveSession ]
    ELSE LET cur == s.current_session_id
             log_entry == [ timestamp |-> now,
                            data |-> log_data,
                            has_missing_data |-> check_for_missing_data(log_data),
                            unusual_symptoms |-> Get(log_data, "unusual_symptoms", FALSE) ]
         IN  [ store |-> [ s EXCEPT !.sessions =
                             Put(s.sessions, cur,
                                 Put(s.sessions[cur], "logs",
                                     << log_entry >> \o s.sessions[cur]["logs"])) ],
               outcome |-> Returned ]

KeyErrorNone == "KeyError: None"

\* add_log_to_history after its test, lines 46-54: the entry is built and
\* appended to the logs of the session that is current at line 54, where
\* self.sessions[self.current_session_id] raises KeyError if there is none
add_log_to_history_append(s, log_data, now) ==
    LET cur == s.current_session_id
        log_entry == [ timestamp |-> now,
                       data |-> log_data,
                       has_missing_data |-> check_for_missing_data(log_data),
                       unusual_symptoms |-> Get(log_data, "unusual_symptoms", FALSE) ]
    IN  IF cur \notin DOMAIN s.sessions
        THEN [ store |-> s, outcome |-> KeyErrorNone ]
        ELSE [ store |-> [ s EXCEPT !.sessions =
                             Put(s.sessions, cur,
                                 Put(s.sessions[cur], "logs",
                                     Append(s.sessions[cur]["logs"], log_entry))) ],
               outcome |-> Returned ]

add_log_to_history(s, log_data, now) ==
    IF s.current_session_id \notin DOMAIN s.sessions
    THEN [ store |-> s, outcome |-> NoActiveSession ]
    ELSE add_log_to_history_append(s, log_data, now)

\* an end_session that records no end time
end_session_without_time(s, sid, now) ==
    IF sid \in DOMAIN s.sessions
    THEN [ store |-> [ sessions |-> Put(s.sessions, sid,
                                        Put(s.sessions[sid], "status", "completed")),
                       current_session_id |-> None ],
           outcome |-> Returned ]
    ELSE [ store |-> s, outcome |-> Returned ]

\* an end_session that closes only the session that is the store's current one
end_session_current_only(s, sid, now) ==
    IF sid \in DOMAIN s.sessions /\ sid = s.current_session_id
    THEN [ store |-> [ sessions |-> Put(s.sessions, sid,
                                        Put(Put(s.sessions[sid], "end_time", now),
                                            "status", "completed")),
                       current_session_id |-> None ],
           outcome |-> Returned ]
    ELSE [ store |-> s, outcome |-> Returned ]

\* an end_session that leaves the store's current session id as it is
end_session_keeping_current(s, sid, now) ==
    IF sid \in DOMAIN s.sessions
    THEN [ store |-> [ sessions |-> Put(s.sessions, sid,
                                        Put(Put(s.sessions[sid], "end_time", now),
                                            "status", "completed")),
                       current_session_id |-> s.current_session_id ],
           outcome |-> Returned ]
    ELSE [ store |-> s, outcome |-> Returned ]

end_session(s, sid, now) ==
    IF sid \in DOMAIN s.sessions
    THEN [ store |-> [ sessions |-> Put(s.sessions, sid,
                                        Put(Put(s.sessions[sid], "end_time", now),
                                            "status", "completed")),
                       current_session_id |-> None ],
           outcome |-> Returned ]
    ELSE [ store |-> s, outcome |-> Returned ]

KeyErrorRaised == "KeyError"

\* any(log[key] for log in logs) raises KeyError: the logs are read in order
\* up to the first true value, and a log without the key is reached
RECURSIVE any_log_raises(_, _)
any_log_raises(logs, key) ==
    /\ logs # << >>
    /\ \/ ~Has(Head(logs), key)
       \/ Head(logs)[key] # TRUE /\ any_log_raises(Tail(logs), key)

\* the value of any(log[key] for log in logs) when it does not raise
RECURSIVE any_log(_, _)
any_log(logs, key) ==
    /\ logs # << >>
    /\ \/ Has(Head(logs), key) /\ Head(logs)[key] = TRUE
       \/ any_log(Tail(logs), key)

get_session_data(s, sid) ==
    IF sid \notin DOMAIN s.sessions
    THEN [ outcome |-> SessionNotFound ]
    ELSE LET session_data == s.sessions[sid]
         IN  IF \/ any_log_raises(session_data["logs"], "has_missing_data")
                \/ any_log_raises(session_data["logs"], "unusual_symptoms")
             THEN [ outcome |-> KeyErrorRaised ]
             ELSE [ outcome |-> Returned,
                    value |-> [ session_id |-> sid,
                                start_time |-> session_data["start_time"],
                                end_time |-> Get(session_data, "end_time", None),
                                status |-> session_data["status"],
                                logs |-> session_data["logs"],
                                has_missing_data |->
                                    any_log(session_data["logs"], "has_missing_data"),
                                has_unusual_symptoms |->
                                    any_log(session_data["logs"], "unusual_symptoms") ] ]

\* the first of end_session's writes, to a session the store holds (line 103)
end_session_set_time(s, sid, now) ==
    [ s EXCEPT !.sessions = Put(s.sessions, sid, Put(s.sessions[sid], "end_time", now)) ]

\* its second write (line 104)
end_session_set_status(s, sid) ==
    [ s EXCEPT !.sessions = Put(s.sessions, sid, Put(s.sessions[sid], "status", "completed")) ]

\* the rest of that end_session call (lines 105-108)
end_session_clear_current(s) ==
    [ s EXCEPT !.current_session_id = None ]

\* get_stats, line 112 and line 113: the sessions of s in the given status
sessions_in_status(s, status) ==
    { id \in DOMAIN s.sessions : s.sessions[id]["status"] = status }

RECURSIVE sum_logs(_, _)
\* sum(len(session["logs"]) for session in the sessions ids of s)
sum_logs(s, ids) ==
    IF ids = {} THEN 0
    ELSE LET id == CHOOSE x \in ids : TRUE
         IN  Len(s.sessions[id]["logs"]) + sum_logs(s, ids \ {id})

\* get_stats from line 116 on, with the two lists built before
stats_result(s, active_sessions, completed_sessions) ==
    IF \E id \in DOMAIN s.sessions :
          \/ any_log_raises(s.sessions[id]["logs"], "has_missing_data")
          \/ any_log_raises(s.sessions[id]["logs"], "unusual_symptoms")
    THEN [ outcome |-> KeyErrorRaised ]
    ELSE [ outcome |-> Returned,
           value |-> [ total_sessions |-> Cardinality(DOMAIN s.sessions),
                       active_sessions |-> Cardinality(active_sessions),
                       completed_sessions |-> Cardinality(completed_sessions),
                       total_logs |-> sum_logs(s, DOMAIN s.sessions),
                       sessions_with_missing_data |->
                           Cardinality({ id \in DOMAIN s.sessions :
                               any_log(s.sessions[id]["logs"], "has_missing_data") }),
                       sessions_with_unusual_symptoms |->
                           Cardinality({ id \in DOMAIN s.sessions :
                               any_log(s.sessions[id]["logs"], "unusual_symptoms") }) ] ]

\* get_stats called with no other call running
get_stats(s) ==
    stats_result(s, sessions_in_status(s, "active"), sessions_in_status(s, "completed"))

-----------------------------------------------------------------------------
(* Inputs: what the user says in a turn and what the chat completion does *)

\* "bad cramps this morning": the period started, heavy, with severe cramps;
\* a time of day but no date
TurnPeriod ==
    [ text |-> <<"b","a","d"," ","c","r","a","m","p","s">>,
      llm |-> [ kind |-> "ok",
                content |-> [ period |-> [ status |-> "start", flow |-> "heavy" ],
                              symptoms |-> << [ type |-> Cramps, severity |-> Severe,
                                                confidence |-> 90 ] >>,
                              timing |-> [ time_of_day |-> "morning" ],
                              confidence |-> 85 ] ] ]

\* "so tired": a mood and nothing else
TurnMood ==
    [ text |-> <<"s","o"," ","t","i","r","e","d">>,
      llm |-> [ kind |-> "ok",
                content |-> [ mood |-> << [ state |-> "tired", intensity |-> "moderate",
                                            confidence |-> 85 ] >>,
                              confidence |-> 80 ] ] ]

\* "Fever today": a date and a symptom, nothing about the period
TurnDate ==
    [ text |-> <<"F","e","v","e","r"," ","t","o","d","a","y">>,
      llm |-> [ kind |-> "ok",
                content |-> [ symptoms |-> << [ type |-> Fever, severity |-> Mild,
                                                confidence |-> 90 ] >>,
                              timing |-> [ date |-> "today" ],
                              confidence |-> 90 ] ] ]

\* "heavy since yesterday": the period started, heavy, yesterday, with severe
\* cramps: status, flow and date are all given
TurnComplete ==
    [ text |-> <<"h","e","a","v","y"," ","s","i","n","c","e"," ",
                 "y","e","s","t","e","r","d","a","y">>,
      llm |-> [ kind |-> "ok",
                content |-> [ period |-> [ status |-> "start", flow |-> "heavy" ],
                              symptoms |-> << [ type |-> Cramps, severity |-> Severe,
                                                confidence |-> 90 ] >>,
                              timing |-> [ date |-> "yesterday" ],
                              confidence |-> 90 ] ] ]

\* "light flow today": a flow and a date, no status
TurnFlowDate ==
    [ text |-> <<"l","i","g","h","t"," ","f","l","o","w"," ","t","o","d","a","y">>,
      llm |-> [ kind |-> "ok",
                content |-> [ period |-> [ flow |-> "light" ],
                              timing |-> [ date |-> "today" ],
                              confidence |-> 90 ] ] ]

\* "exit": the reply of the completion is the source of a call of exit()
TurnExit ==
    [ text |-> <<"e","x","i","t">>, llm |-> [ kind |-> "exit" ] ]

\* the turns of the conversations of Spec
Turns == { TurnPeriod, TurnMood, TurnDate }

-----
(* VoiceConversationHandler *)

SynthesisFailed == "raised in text_to_speech"

\* what input() (line 127) raises when sys.stdin is at its end, when it has
\* been closed, and when the user interrupts the wait
EndOfInput == "raised EOFError: EOF when reading a line"
StdinClosed == "raised ValueError: I/O operation on closed file"
KeyboardInterruptRaised == "raised KeyboardInterrupt"

\* the standard input is at its end: there is no reply. A file or a pipe
\* stays at its end, a terminal gives the next line to the next input()
EndOfFile == [ eof |-> TRUE ]

\* the user presses the interrupt key while input() waits
Interrupt == [ interrupt |-> TRUE ]

\* what input() may meet after a question: one of the replies, the end of the
\* input, or an interrupt
Replies(turns) == turns \cup { EndOfFile, Interrupt }
Suspended == "awaiting the user's reply"

\* calls of extract_period_info a process_conversation started now can make
CallsNeeded == 1 + (max_questions - current_question)

\* a loop test that lets a question through when the counter is at the limit
loop_test_off_by_one(missing, cq) == missing # << >> /\ cq <= max_questions

\* a loop test that stops one question short of the limit
loop_test_stops_early(missing, cq) == missing # << >> /\ cq < max_questions - 1

\* a loop test that asks a question whether or not a field is missing
loop_test_ignoring_missing(missing, cq) == cq < max_questions

\* the `while` test: missing_fields and self.current_question < self.max_questions
loop_test(missing, cq) == missing # << >> /\ cq < max_questions

\* process_conversation from its `while` test (line 113) to the point where it
\* next waits for the user (line 127), returns (line 148) or raises.
\*   data, missing, cq: result, missing_fields and current_question at the test
\*   hist: the history so far;  tts_ok: whether text_to_speech succeeds
RunToInput(data, missing, cq, hist, tts_ok) ==
    IF loop_test(missing, cq)
    THEN IF tts_ok
         THEN \* lines 115-124: the question is spoken, played and recorded
              /\ conversation_history' =
                    Append(hist, [ role |-> "assistant",
                                   content |-> generate_followup_question(missing, data) ])
              /\ pc' = "awaiting"
              /\ ret' = [ op |-> "process_conversation", outcome |-> Suspended ]
              /\ UNCHANGED << hstore, tts_failures >>
         ELSE \* line 118 raises and the exception leaves process_conversation
              /\ tts_failures < MaxTtsFailures
              /\ tts_failures' = tts_failures + 1
              /\ conversation_history' = hist
              /\ pc' = "idle"
              /\ ret' = [ op |-> "process_conversation", outcome |-> SynthesisFailed ]
              /\ UNCHANGED hstore
    ELSE \* lines 144-148: the record is stored and returned
         /\ tts_ok
         /\ conversation_history' = hist
         /\ pc' = "idle"
         /\ UNCHANGED tts_failures
         /\ IF session_id # None
            THEN LET r == add_log_to_history(hstore, data, clock)
                 IN  /\ hstore' = r.store
                     /\ ret' = [ op |-> "process_conversation", outcome |-> r.outcome ]
            ELSE /\ hstore' = hstore
                 /\ ret' = [ op |-> "process_conversation", outcome |-> Returned ]

\* process_conversation(initial_text) up to its first wait, return or raise:
\* what it does to the handler and what it hands to its caller
process_conversation(turn, client_ok, tts_ok) ==
    /\ pc = "idle"
    /\ extract_total + CallsNeeded <= MaxExtractCalls
    /\ LET e == call_extract_period_info(turn.text, client_ok, turn.llm)
           hist == Append(conversation_history,
                          [ role |-> "user", content |-> turn.text ])
       IN  IF e.outcome # Returned
           THEN \* line 105 raises and the exception leaves process_conversation
                /\ conversation_history' = hist
                /\ pc' = "idle"
                /\ ret' = [ op |-> "process_conversation", outcome |-> e.outcome ]
                /\ turn_log' = << >>
                /\ UNCHANGED << result, missing_fields, hstore, tts_failures >>
           ELSE LET r == e.record
                    c1 == check_required_fields(r)
                    c2 == check_required_fields(c1.data)
                IN  /\ result' = c2.data
                    /\ missing_fields' = c2.missing
                    /\ turn_log' = << r >>
                    /\ RunToInput(c2.data, c2.missing, current_question, hist, tts_ok)
    /\ extract_calls' = 1
    /\ extract_total' = extract_total + 1
    /\ conv_no' = conv_no + 1
    /\ stdin' = stdin_after_extract(client_ok, turn.llm)
    /\ UNCHANGED << current_question, session_id, asked >>

\* process_conversation called on the handler by itself
StartConversation(turn, client_ok, tts_ok) ==
    /\ process_conversation(turn, client_ok, tts_ok)
    /\ UNCHANGED << trackerVars, store, clock, threadVars >>

\* a resume that starts the history again from the user's reply
resume_conversation_restarting_history(turn, client_ok, tts_ok) ==
    /\ pc = "awaiting"
    /\ IF stdin = "closed" \/ turn \in { EndOfFile, Interrupt }
       THEN \* line 127 raises and the exception leaves process_conversation
            /\ pc' = "idle"
            /\ ret' = [ op |-> "process_conversation",
                        outcome |-> IF stdin = "closed" THEN StdinClosed
                                    ELSE IF turn = Interrupt THEN KeyboardInterruptRaised
                                    ELSE EndOfInput ]
            /\ UNCHANGED << conversation_history, result, missing_fields, turn_log,
                            current_question, hstore, tts_failures, extract_calls,
                            extract_total, stdin >>
       ELSE /\ LET e == call_extract_period_info(turn.text, client_ok, turn.llm)
                   hist == << [ role |-> "user", content |-> turn.text ] >>
               IN  IF e.outcome # Returned
                   THEN \* line 133 raises and the exception leaves
                        \* process_conversation
                        /\ conversation_history' = hist
                        /\ pc' = "idle"
                        /\ ret' = [ op |-> "process_conversation",
                                    outcome |-> e.outcome ]
                        /\ UNCHANGED << result, missing_fields, turn_log,
                                        current_question, hstore, tts_failures >>
                   ELSE LET new_info == e.record
                            c1 == check_required_fields(new_info)
                            merged == update(result, c1.data)
                            c2 == check_required_fields(merged)
                        IN  /\ result' = c2.data
                            /\ missing_fields' = c2.missing
                            /\ turn_log' = Append(turn_log, new_info)
                            /\ current_question' = current_question + 1
                            /\ RunToInput(c2.data, c2.missing, current_question + 1,
                                          hist, tts_ok)
            /\ extract_calls' = extract_calls + 1
            /\ extract_total' = extract_total + 1
            /\ stdin' = stdin_after_extract(client_ok, turn.llm)
    /\ UNCHANGED << session_id, conv_no, asked >>

\* input() returns the user's reply, or raises: lines 127-142, then on as
\* above
resume_conversation(turn, client_ok, tts_ok) ==
    /\ pc = "awaiting"
    /\ IF stdin = "closed" \/ turn \in { EndOfFile, Interrupt }
       THEN \* line 127 raises and the exception leaves process_conversation
            /\ pc' = "idle"
            /\ ret' = [ op |-> "process_conversation",
                        outcome |-> IF stdin = "closed" THEN StdinClosed
                                    ELSE IF turn = Interrupt THEN KeyboardInterruptRaised
                                    ELSE EndOfInput ]
            /\ UNCHANGED << conversation_history, result, missing_fields, turn_log,
                            current_question, hstore, tts_failures, extract_calls,
                            extract_total, stdin >>
       ELSE /\ LET e == call_extract_period_info(turn.text, client_ok, turn.llm)
                   hist == Append(conversation_history,
                                  [ role |-> "user", content |-> turn.text ])
               IN  IF e.outcome # Returned
                   THEN \* line 133 raises and the exception leaves
                        \* process_conversation
                        /\ conversation_history' = hist
                        /\ pc' = "idle"
                        /\ ret' = [ op |-> "process_conversation",
                                    outcome |-> e.outcome ]
                        /\ UNCHANGED << result, missing_fields, turn_log,
                                        current_question, hstore, tts_failures >>
                   ELSE LET new_info == e.record
                            c1 == check_required_fields(new_info)
                            merged == update(result, c1.data)
                            c2 == check_required_fields(merged)
                        IN  /\ result' = c2.data
                            /\ missing_fields' = c2.missing
                            /\ turn_log' = Append(turn_log, new_info)
                            /\ current_question' = current_question + 1
                            /\ RunToInput(c2.data, c2.missing, current_question + 1,
                                          hist, tts_ok)
            /\ extract_calls' = extract_calls + 1
            /\ extract_total' = extract_total + 1
            /\ stdin' = stdin_after_extract(client_ok, turn.llm)
    /\ UNCHANGED << session_id, conv_no, asked >>

\* the reply to a question of a process_conversation the handler was called with
UserReply(turn, client_ok, tts_ok) ==
    /\ resume_conversation(turn, client_ok, tts_ok)
    /\ UNCHANGED << trackerVars, store, clock, threadVars >>

\* end_conversation
EndConversation ==
    /\ pc = "idle"
    /\ IF session_id # None
       THEN /\ hstore' = end_session(hstore, session_id, clock).store
            /\ session_id' = None
            /\ current_question' = 0
            /\ conversation_history' = << >>
       ELSE UNCHANGED << hstore, session_id, current_question, conversation_history >>
    /\ ret' = [ op |-> "end_conversation", outcome |-> Returned ]
    /\ UNCHANGED << pc, result, missing_fields, extract_calls, extract_total, conv_no,
                    turn_log, tts_failures, asked, stdin, trackerVars, store, clock,
                    threadVars >>

-----------------------------------------------------------------------------
(* PeriodDataStore driven through its public methods *)

\* the dicts handed to add_log_to_session / add_log_to_history: a complete
\* record, and one with an unusual symptom that lacks the date
LogInputs ==
    { [ period |-> [ flow |-> "light" ], timing |-> [ date |-> "today" ],
        unusual_symptoms |-> FALSE ],
      [ period |-> [ status |-> "start" ],
        symptoms |-> << [ type |-> Fever, severity |-> Severe ] >>,
        unusual_symptoms |-> TRUE ] }

RECURSIVE SumLogs(_, _)
SumLogs(sessions, ids) ==
    IF ids = {} THEN 0
    ELSE LET id == CHOOSE x \in ids : TRUE
         IN  Len(sessions[id]["logs"]) + SumLogs(sessions, ids \ {id})

\* log entries held by store s
LogCount(s) == SumLogs(s.sessions, DOMAIN s.sessions)

CreateSession ==
    /\ Cardinality(DOMAIN store.sessions) < MaxSessions
    /\ \E id \in drawn_ids(store) :
         LET r == create_session(store, id, clock)
         IN  /\ store' = r.store
             /\ ret' = [ op |-> "create_session", outcome |-> r.outcome, value |-> id ]
    /\ UNCHANGED << handlerVars, trackerVars, clock, threadVars >>

AddLogToSession ==
    /\ \E sid \in SessionIds, log_data \in LogInputs :
         /\ LogCount(store) < MaxLogs
         /\ LET r == add_log_to_session(store, sid, log_data, clock)
            IN  /\ store' = r.store
                /\ ret' = [ op |-> "add_log_to_session", outcome |-> r.outcome, sid |-> sid ]
    /\ UNCHANGED << handlerVars, trackerVars, clock, threadVars >>

AddLogToHistory ==
    /\ \E log_data \in LogInputs :
         /\ LogCount(store) < MaxLogs
         /\ LET r == add_log_to_history(store, log_data, clock)
            IN  /\ store' = r.store
                /\ ret' = [ op |-> "add_log_to_history", outcome |-> r.outcome,
                            sid |-> store.current_session_id ]
    /\ UNCHANGED << handlerVars, trackerVars, clock, threadVars >>

EndSession ==
    /\ \E sid \in SessionIds :
         LET r == end_session(store, sid, clock)
         IN  /\ store' = r.store
             /\ ret' = [ op |-> "end_session", outcome |-> r.outcome, sid |-> sid ]
    /\ UNCHANGED << handlerVars, trackerVars, clock, threadVars >>

GetSessionData ==
    /\ \E sid \in SessionIds :
         LET r == get_session_data(store, sid)
         IN  ret' = IF r.outcome = Returned
                    THEN [ op |-> "get_session_data", sid |-> sid, outcome |-> Returned,
                           session |-> r.value ]
                    ELSE [ op |-> "get_session_data", sid |-> sid, outcome |-> r.outcome ]
    /\ UNCHANGED << handlerVars, trackerVars, store, clock, threadVars >>

\* time passes between two calls
Tick ==
    /\ clock < MaxClock
    /\ clock' = clock + 1
    /\ ret' = [ op |-> "tick", outcome |-> Returned ]
    /\ UNCHANGED << handlerVars, trackerVars, store, threadVars >>

-----------------------------------------------------------------------------
(* One PeriodDataStore called from several threads. The store takes no lock,
   so a call of one thread runs between two statements of a call of another,
   and two calls of the same method overlap. A call in progress is a record
   of `running`: its method (op), the line it executes next and its locals.
   create_session is cut between writing the session and making it current,
   add_log_to_history between its test and its append, end_session between
   its writes, get_session_data between its reads and before its return,
   get_stats at every step of its iterators over self.sessions. *)

\* the threads that call the store
Threads == 2

\* the calls that have started and not yet returned or raised
CallsInProgress == BagCardinality(running)

\* a thread is free to start a call
ThreadFree == CallsInProgress < Threads /\ calls_made < MaxCalls

\* the calls in progress of one method that are at one line
CallsAt(op, line) == { c \in BagToSet(running) : c.op = op /\ c.line = line }

\* the number of calls in progress among the given ones
RECURSIVE Copies(_)
Copies(calls) ==
    IF calls = {} THEN 0
    ELSE LET c == CHOOSE x \in calls : TRUE
         IN  CopiesIn(c, running) + Copies(calls \ { c })

\* the add_log_to_history calls that have passed their test and not yet
\* appended
AddsInProgress == Copies(CallsAt("add_log_to_history", 46))

\* a call starts, moves on and ends
Started(c) == running (+) SetToBag({ c })
Ended(c) == running (-) SetToBag({ c })
Moved(c, d) == Ended(c) (+) SetToBag({ d })

\* create_session, lines 13-19
CreateSessionWrite ==
    /\ ThreadFree
    /\ Cardinality(DOMAIN store.sessions) < MaxSessions
    /\ \E id \in drawn_ids(store) :
         /\ store' = create_session_write(store, id, clock)
         /\ running' = Started([ op |-> "create_session", line |-> 20,
                                 session_id |-> id ])
    /\ UNCHANGED << handlerVars, trackerVars, clock, ret >>
    /\ calls_made' = calls_made + 1

\* create_session, lines 20-21
CreateSessionSetCurrent ==
    /\ \E c \in CallsAt("create_session", 20) :
         /\ store' = create_session_set_current(store, c.session_id)
         /\ ret' = [ op |-> "create_session", outcome |-> Returned,
                     value |-> c.session_id ]
         /\ running' = Ended(c)
    /\ UNCHANGED << handlerVars, trackerVars, clock, calls_made >>

\* add_log_to_session called by a thread
ThreadAddLogToSession ==
    /\ ThreadFree
    /\ \E sid \in SessionIds, log_data \in LogInputs :
         /\ LogCount(store) + AddsInProgress < MaxLogs
         /\ LET r == add_log_to_session(store, sid, log_data, clock)
            IN  /\ store' = r.store
                /\ ret' = [ op |-> "add_log_to_session", outcome |-> r.outcome, sid |-> sid ]
    /\ UNCHANGED << handlerVars, trackerVars, clock, running >>
    /\ calls_made' = calls_made + 1

\* add_log_to_history, line 42
AddLogToHistoryTest ==
    /\ ThreadFree
    /\ LogCount(store) + AddsInProgress < MaxLogs
    /\ \E log_data \in LogInputs :
         IF store.current_session_id \notin DOMAIN store.sessions
         THEN /\ ret' = [ op |-> "add_log_to_history", outcome |-> NoActiveSession,
                          sid |-> store.current_session_id ]
              /\ UNCHANGED running
         ELSE /\ running' = Started([ op |-> "add_log_to_history", line |-> 46,
                                      log_data |-> log_data ])
              /\ UNCHANGED ret
    /\ UNCHANGED << handlerVars, trackerVars, store, clock >>
    /\ calls_made' = calls_made + 1

\* add_log_to_history, lines 46-54
AddLogToHistoryAppend ==
    /\ \E c \in CallsAt("add_log_to_history", 46) :
         LET r == add_log_to_history_append(store, c.log_data, clock)
         IN  /\ store' = r.store
             /\ ret' = [ op |-> "add_log_to_history", outcome |-> r.outcome,
                         sid |-> store.current_session_id ]
             /\ running' = Ended(c)
    /\ UNCHANGED << handlerVars, trackerVars, clock, calls_made >>

\* end_session up to its first write (line 103)
EndSessionSetTime ==
    /\ ThreadFree
    /\ \E sid \in SessionIds :
         IF sid \in DOMAIN store.sessions
         THEN /\ store' = end_session_set_time(store, sid, clock)
              /\ running' = Started([ op |-> "end_session", line |-> 104,
                                      session_id |-> sid ])
              /\ UNCHANGED ret
         ELSE /\ ret' = [ op |-> "end_session", outcome |-> Returned, sid |-> sid ]
              /\ UNCHANGED << store, running >>
    /\ UNCHANGED << handlerVars, trackerVars, clock >>
    /\ calls_made' = calls_made + 1

\* end_session, line 104
EndSessionSetStatus ==
    /\ \E c \in CallsAt("end_session", 104) :
         /\ store' = end_session_set_status(store, c.session_id)
         /\ running' = Moved(c, [ c EXCEPT !.line = 105 ])
    /\ UNCHANGED << handlerVars, trackerVars, clock, ret, calls_made >>

\* end_session, lines 105-108
EndSessionClearCurrent ==
    /\ \E c \in CallsAt("end_session", 105) :
         /\ store' = end_session_clear_current(store)
         /\ ret' = [ op |-> "end_session", outcome |-> Returned, sid |-> c.session_id ]
         /\ running' = Ended(c)
    /\ UNCHANGED << handlerVars, trackerVars, clock, calls_made >>

\* get_session_data, lines 77-84: the test, then start_time and end_time are
\* read
GetSessionDataTimes ==
    /\ ThreadFree
    /\ \E sid \in SessionIds :
         IF sid \notin DOMAIN store.sessions
         THEN /\ ret' = [ op |-> "get_session_data", sid |-> sid,
                          outcome |-> SessionNotFound ]
              /\ UNCHANGED running
         ELSE /\ running' =
                   Started([ op |-> "get_session_data", line |-> 85,
                             session_id |-> sid,
                             start_time |-> store.sessions[sid]["start_time"],
                             end_time |-> Get(store.sessions[sid], "end_time", None) ])
              /\ UNCHANGED ret
    /\ UNCHANGED << handlerVars, trackerVars, store, clock >>
    /\ calls_made' = calls_made + 1

\* get_session_data, lines 85-86: the status is read; the logs are the
\* session's own list, not a copy
GetSessionDataStatus ==
    /\ \E c \in CallsAt("get_session_data", 85) :
         running' = Moved(c, [ op |-> "get_session_data", line |-> 87,
                               session_id |-> c.session_id,
                               start_time |-> c.start_time,
                               end_time |-> c.end_time,
                               status |-> store.sessions[c.session_id]["status"] ])
    /\ UNCHANGED << handlerVars, trackerVars, store, clock, ret, calls_made >>

\* get_session_data, line 87: any() over the logs as they are now
GetSessionDataMissing ==
    /\ \E c \in CallsAt("get_session_data", 87) :
         LET logs == store.sessions[c.session_id]["logs"]
         IN  IF any_log_raises(logs, "has_missing_data")
             THEN /\ ret' = [ op |-> "get_session_data", sid |-> c.session_id,
                              outcome |-> KeyErrorRaised ]
                  /\ running' = Ended(c)
             ELSE /\ running' =
                       Moved(c, [ op |-> "get_session_data", line |-> 88,
                                  session_id |-> c.session_id,
                                  start_time |-> c.start_time,
                                  end_time |-> c.end_time,
                                  status |-> c.status,
                                  has_missing_data |->
                                      any_log(logs, "has_missing_data") ])
                  /\ UNCHANGED ret
    /\ UNCHANGED << handlerVars, trackerVars, store, clock, calls_made >>

\* get_session_data, line 88: any() over the logs as they are now
GetSessionDataUnusual ==
    /\ \E c \in CallsAt("get_session_data", 88) :
         LET logs == store.sessions[c.session_id]["logs"]
         IN  IF any_log_raises(logs, "unusual_symptoms")
             THEN /\ ret' = [ op |-> "get_session_data", sid |-> c.session_id,
                              outcome |-> KeyErrorRaised ]
                  /\ running' = Ended(c)
             ELSE /\ running' =
                       Moved(c, [ op |-> "get_session_data", line |-> 89,
                                  session_id |-> c.session_id,
                                  start_time |-> c.start_time,
                                  end_time |-> c.end_time,
                                  status |-> c.status,
                                  has_missing_data |-> c.has_missing_data,
                                  has_unusual_symptoms |->
                                      any_log(logs, "unusual_symptoms") ])
                  /\ UNCHANGED ret
    /\ UNCHANGED << handlerVars, trackerVars, store, clock, calls_made >>

\* get_session_data, lines 81-89: the dict is built and returned. Its logs
\* are the session's own list (line 86), so that the caller gets the logs as
\* they are when the call returns, whatever the two any() saw
GetSessionDataReturn ==
    /\ \E c \in CallsAt("get_session_data", 89) :
         /\ ret' = [ op |-> "get_session_data", sid |-> c.session_id,
                     outcome |-> Returned,
                     session |-> [ session_id |-> c.session_id,
                                   start_time |-> c.start_time,
                                   end_time |-> c.end_time,
                                   status |-> c.status,
                                   logs |-> store.sessions[c.session_id]["logs"],
                                   has_missing_data |-> c.has_missing_data,
                                   has_unusual_symptoms |-> c.has_unusual_symptoms ] ]
         /\ running' = Ended(c)
    /\ UNCHANGED << handlerVars, trackerVars, store, clock, calls_made >>

\* what next() of an iterator over self.sessions raises when the dict has got
\* a key since the iterator was made
DictChangedSize == "RuntimeError: dictionary changed size during iteration"

\* the k-th session of self.sessions.values(): a dict keeps the order in which
\* its keys were inserted, and the sessions are inserted in the order of
\* their ids
nth_session(s, k) ==
    CHOOSE id \in DOMAIN s.sessions :
        Cardinality({ x \in DOMAIN s.sessions : x < id }) = k - 1

\* the locals of get_stats after one more session of the pass of
\* c.line has been looked at; sums is what the pass adds for that session
counted(c, sums) ==
    [ c EXCEPT !.pos = c.pos + 1,
               !.active_sessions = @ + sums.active_sessions,
               !.completed_sessions = @ + sums.completed_sessions,
               !.total_logs = @ + sums.total_logs,
               !.sessions_with_missing_data = @ + sums.sessions_with_missing_data,
               !.sessions_with_unusual_symptoms = @ + sums.sessions_with_unusual_symptoms ]

\* nothing to add
NoSums == [ active_sessions |-> 0, completed_sessions |-> 0, total_logs |-> 0,
            sessions_with_missing_data |-> 0, sessions_with_unusual_symptoms |-> 0 ]

\* what the pass of the given line adds for one session, as the session is
\* when the pass reaches it
pass_sums(line, session) ==
    IF line = 112
    THEN [ NoSums EXCEPT !.active_sessions = IF session["status"] = "active" THEN 1 ELSE 0 ]
    ELSE IF line = 113
    THEN [ NoSums EXCEPT !.completed_sessions =
                            IF session["status"] = "completed" THEN 1 ELSE 0 ]
    ELSE IF line = 116
    THEN [ NoSums EXCEPT !.total_logs = Len(session["logs"]) ]
    ELSE IF line = 117
    THEN [ NoSums EXCEPT !.sessions_with_missing_data =
                            IF any_log(session["logs"], "has_missing_data") THEN 1 ELSE 0 ]
    ELSE [ NoSums EXCEPT !.sessions_with_unusual_symptoms =
                            IF any_log(session["logs"], "unusual_symptoms") THEN 1 ELSE 0 ]

\* the pass of the given line raises KeyError on the session
pass_raises(line, session) ==
    \/ line = 117 /\ any_log_raises(session["logs"], "has_missing_data")
    \/ line = 121 /\ any_log_raises(session["logs"], "unusual_symptoms")

\* One step of a pass of get_stats over self.sessions.values(): the iterator
\* is made (used is the number of keys then), or next() is called on it.
\* next() raises when the number of keys is no longer `used`, hands out the
\* next session, or ends the pass, and then the statement of next_line follows.
stats_pass_step(line, next_line) ==
    \E c \in CallsAt("get_stats", line) :
        IF c.used = None
        THEN /\ running' = Moved(c, [ c EXCEPT !.used = Cardinality(DOMAIN store.sessions),
                                                !.pos = 0 ])
             /\ UNCHANGED ret
        ELSE IF Cardinality(DOMAIN store.sessions) # c.used
        THEN /\ ret' = [ op |-> "get_stats", outcome |-> DictChangedSize ]
             /\ running' = Ended(c)
        ELSE IF c.pos < c.used
        THEN LET session == store.sessions[nth_session(store, c.pos + 1)]
             IN  IF pass_raises(line, session)
                 THEN /\ ret' = [ op |-> "get_stats", outcome |-> KeyErrorRaised ]
                      /\ running' = Ended(c)
                 ELSE /\ running' = Moved(c, counted(c, pass_sums(line, session)))
                      /\ UNCHANGED ret
        ELSE /\ running' = Moved(c, [ c EXCEPT !.line = next_line, !.used = None,
                                                !.pos = 0 ])
             /\ UNCHANGED ret

\* get_stats is called: the iterator of line 112 is made
GetStatsStart ==
    /\ ThreadFree
    /\ running' = Started([ op |-> "get_stats", line |-> 112,
                            used |-> Cardinality(DOMAIN store.sessions), pos |-> 0 ]
                          @@ NoSums)
    /\ UNCHANGED << handlerVars, trackerVars, store, clock, ret >>
    /\ calls_made' = calls_made + 1

\* get_stats, line 112: the list of the active sessions
GetStatsActive ==
    /\ stats_pass_step(112, 113)
    /\ UNCHANGED << handlerVars, trackerVars, store, clock, calls_made >>

\* get_stats, line 113: the list of the completed sessions
GetStatsCompleted ==
    /\ stats_pass_step(113, 116)
    /\ UNCHANGED << handlerVars, trackerVars, store, clock, calls_made >>

\* get_stats, line 116: the sum of the numbers of logs
GetStatsTotalLogs ==
    /\ stats_pass_step(116, 117)
    /\ UNCHANGED << handlerVars, trackerVars, store, clock, calls_made >>

\* get_stats, lines 117-120: the sessions with a log that misses data
GetStatsMissingData ==
    /\ stats_pass_step(117, 121)
    /\ UNCHANGED << handlerVars, trackerVars, store, clock, calls_made >>

\* get_stats, lines 121-124: the sessions with a log of unusual symptoms
GetStatsUnusualSymptoms ==
    /\ stats_pass_step(121, 126)
    /\ UNCHANGED << handlerVars, trackerVars, store, clock, calls_made >>

\* get_stats, lines 126-133: len(self.sessions) is read and the dict returned
GetStatsReturn ==
    /\ \E c \in CallsAt("get_stats", 126) :
         /\ ret' = [ op |-> "get_stats", outcome |-> Returned,
                     statistics |->
                       [ total_sessions |-> Cardinality(DOMAIN store.sessions),
                         active_sessions |-> c.active_sessions,
                         completed_sessions |-> c.completed_sessions,
                         total_logs |-> c.total_logs,
                         sessions_with_missing_data |-> c.sessions_with_missing_data,
                         sessions_with_unusual_symptoms |->
                             c.sessions_with_unusual_symptoms ] ]
         /\ running' = Ended(c)
    /\ UNCHANGED << handlerVars, trackerVars, store, clock, calls_made >>

-----------------------------------------------------------------------------
(* extract_period_info called on given texts *)

\* what the texts are made of
Words ==
    { <<"H","e","a","v","y"," ","f","l","o","w">>,
      <<"l","i","g","h","t"," ","p","e","r","i","o","d">>,
      <<"N","o","r","m","a","l"," ","f","l","o","w">>,
      <<"h","e","a","v","y">>,
      <<"f","l","o","w">>,
      <<"c","r","a","m","p","s">>,
      <<" ">>,
      <<"\r">>,
      <<"É">> }

\* the texts handed to extract_period_info: at most MaxWords words
RECURSIVE TextsOf(_)
TextsOf(n) ==
    IF n = 0 THEN { << >> }
    ELSE TextsOf(n - 1) \cup { t \o w : t \in TextsOf(n - 1), w \in Words }

Texts == TextsOf(MaxWords)

\* what the chat completion does: the call raises, the reply is not the
\* source of a dict, the reply is the source of a call of exit() or of
\* sys.exit(n), or the reply is one of the dicts of the turns
Completions ==
    { [ kind |-> "fail" ], [ kind |-> "malformed" ], [ kind |-> "exit" ],
      [ kind |-> "sys_exit" ],
      TurnPeriod.llm, TurnMood.llm,
      [ kind |-> "ok",
        content |-> [ period |-> EmptyDict, symptoms |-> << >>, mood |-> << >>,
                      timing |-> EmptyDict, confidence |-> 0 ] ] }

ExtractPeriodInfo ==
    /\ \E text \in Texts, client_ok \in BOOLEAN, llm \in Completions :
         /\ ret' = [ op |-> "extract_period_info", text |-> text,
                     client_ok |-> client_ok, kind |-> llm.kind ]
                     @@ call_extract_period_info(text, client_ok, llm)
         /\ stdin' = stdin_after_extract(client_ok, llm)
    /\ UNCHANGED << conversationVars, trackerVars, store, clock, threadVars >>

-----------------------------------------------------------------------------
(* The handler's and the store's helper methods called on given arguments *)

\* the period dict of a record: no such key (the empty tuple), or a dict with
\* some of status, flow, duration_days
PeriodValues ==
    { << >>, << [ status |-> "start" ] >>, << [ flow |-> "heavy" ] >>,
      << [ status |-> "none", flow |-> "light" ] >>, << [ duration_days |-> 3 ] >> }

\* the timing dict of a record: no such key, or a dict with date or time_of_day
TimingValues == { << >>, << [ date |-> "today" ] >>, << [ time_of_day |-> "morning" ] >> }

\* the symptoms and the flag of a record: no such keys, or a symptom whose
\* type is in the list of unusual symptoms with the flag not set
SymptomValues ==
    { << >>,
      << [ symptoms |-> << [ type |-> Fever, severity |-> Mild, confidence |-> 90 ] >>,
           unusual_symptoms |-> FALSE ] >> }

\* the dict with the given parts
MakeRecord(p, t, sy) ==
    (IF p = << >> THEN EmptyDict ELSE [ period |-> p[1] ])
    @@ (IF t = << >> THEN EmptyDict ELSE [ timing |-> t[1] ])
    @@ (IF sy = << >> THEN EmptyDict ELSE sy[1])

\* the records the checks are called with; one of them has every field absent
Records ==
    { MakeRecord(p, t, sy) : p \in PeriodValues, t \in TimingValues, sy \in SymptomValues }

\* "so tired" as the extractor returns it
MoodRecord == extract_period_info(TurnMood.text, TurnMood.llm).record

\* the records the generator is called with
GenRecords == { EmptyDict, MoodRecord }

\* the missing lists the generator is called with
MissingLists ==
    LET slots == { "period", "date", "flow" }
    IN  { << >> } \cup { << a >> : a \in slots } \cup { << a, b >> : a, b \in slots }

\* self._generate_followup_question(missing, current_data), called between
\* two calls of the handler's life (while process_conversation waits in
\* input() the thread runs nothing else); the missing list and the text of
\* the first such call on a handler that has served no conversation yet are
\* remembered in `asked`
GenerateFollowupQuestion(missing, current_data) ==
    LET call == [ op |-> "_generate_followup_question",
                  outcome |-> Returned,
                  missing |-> missing,
                  data |-> current_data,
                  value |-> generate_followup_question(missing, current_data) ]
    IN  /\ pc = "idle"
        /\ ret' = call
        /\ asked' = IF asked = << >> /\ conv_no = 0
                    THEN << [ missing |-> missing, value |-> call.value ] >>
                    ELSE asked
        /\ UNCHANGED << current_question, conversation_history, session_id, hstore, pc,
                        result, missing_fields, extract_calls, extract_total, conv_no,
                        turn_log, tts_failures, stdin, trackerVars, store, clock,
                        threadVars >>

\* self._check_required_fields(data), called between two calls of the
\* handler's life; `after` is the dict the caller holds once the call has
\* returned
CheckRequiredFields(data) ==
    LET c == check_required_fields(data)
    IN  /\ pc = "idle"
        /\ ret' = [ op |-> "_check_required_fields",
                    outcome |-> Returned,
                    data |-> data,
                    after |-> c.data,
                    value |-> c.missing ]
        /\ UNCHANGED << handlerVars, trackerVars, store, clock, threadVars >>

\* data_store._check_for_missing_data(log_data) on the handler's store,
\* called between two calls of the handler's life
CheckForMissingData(log_data) ==
    /\ pc = "idle"
    /\ ret' = [ op |-> "_check_for_missing_data",
                outcome |-> Returned,
                data |-> log_data,
                after |-> log_data,
                value |-> check_for_missing_data(log_data) ]
    /\ UNCHANGED << handlerVars, trackerVars, store, clock, threadVars >>

\* the turns of the conversations of HelperSpec and ChecksSpec
HelperTurns == { TurnMood }

-----------------------------------------------------------------------------
(* format_period_summary (utils/text_processor.py) *)

Digits == <<"0","1","2","3","4","5","6","7","8","9">>

\* str(n) of an int that is not negative
RECURSIVE str_int(_)
str_int(n) ==
    IF n < 10 THEN << Digits[n + 1] >>
    ELSE str_int(n \div 10) \o << Digits[(n % 10) + 1] >>

\* f"{x:.2f}" of a confidence, which the records hold in hundredths
format_2f(p) ==
    str_int(p \div 100) \o <<".">>
    \o << Digits[((p % 100) \div 10) + 1], Digits[(p % 10) + 1] >>

\* sep.join(parts)
RECURSIVE join(_, _)
join(sep, parts) ==
    IF parts = << >> THEN << >>
    ELSE IF Len(parts) = 1 THEN parts[1]
    ELSE parts[1] \o sep \o join(sep, Tail(parts))

\* The records hold a status, a flow, a date, a time of day, a mood and an
\* intensity as one str each: the characters of such a str
chars(v) == << >> \o [ i \in 1..Len(v) |-> SubSeq(v, i, i) ]

\* symptom["type"] or mood["state"] (lines 165, 176) raises KeyError
summary_raises(log_data) ==
    \/ /\ Has(log_data, "symptoms")
       /\ \E i \in 1..Len(log_data["symptoms"]) : ~Has(log_data["symptoms"][i], "type")
    \/ /\ Has(log_data, "mood")
       /\ \E i \in 1..Len(log_data["mood"]) : ~Has(log_data["mood"][i], "state")

\* the period lines (lines 152-159)
period_parts(period) ==
    (IF Has(period, "status")
     THEN << <<"P","e","r","i","o","d"," ","S","t","a","t","u","s",":"," ">> \o title(chars(period["status"])) >>
     ELSE << >>)
    \o (IF Has(period, "flow")
        THEN << <<"F","l","o","w",":"," ">> \o title(chars(period["flow"])) >>
        ELSE << >>)
    \o (IF Has(period, "duration")
        THEN << <<"D","u","r","a","t","i","o","n",":"," ">> \o str_int(period["duration"])
                \o <<" ","d","a","y","s">> >>
        ELSE << >>)

\* one symptom with its severity (lines 165-167)
symptom_str(symptom) ==
    title(symptom["type"])
    \o (IF Has(symptom, "severity")
        THEN <<" ","(">> \o symptom["severity"] \o <<")">>
        ELSE << >>)

\* one mood with its intensity (lines 176-178)
mood_str(mood) ==
    title(chars(mood["state"]))
    \o (IF Has(mood, "intensity")
        THEN <<" ","(">> \o chars(mood["intensity"]) \o <<")">>
        ELSE << >>)

\* the date and the time of day (lines 185-190)
timing_parts(timing) ==
    (IF Has(timing, "date")
     THEN << <<"D","a","t","e",":"," ">> \o chars(timing["date"]) >>
     ELSE << >>)
    \o (IF Has(timing, "time_of_day")
        THEN << <<"T","i","m","e",":"," ">> \o title(chars(timing["time_of_day"])) >>
        ELSE << >>)

\* format_period_summary(log_data) when it returns: the lines that apply,
\* joined by a newline
format_period_summary(log_data) ==
    LET symptom_parts ==
            IF Has(log_data, "symptoms")
            THEN << >> \o [ i \in 1..Len(log_data["symptoms"]) |->
                              symptom_str(log_data["symptoms"][i]) ]
            ELSE << >>
        mood_parts ==
            IF Has(log_data, "mood")
            THEN << >> \o [ i \in 1..Len(log_data["mood"]) |->
                              mood_str(log_data["mood"][i]) ]
            ELSE << >>
        timing ==
            IF Has(log_data, "timing") /\ log_data["timing"] # EmptyDict
            THEN timing_parts(log_data["timing"])
            ELSE << >>
        summary_parts ==
            (IF Has(log_data, "period") THEN period_parts(log_data["period"]) ELSE << >>)
            \o (IF symptom_parts # << >>
                THEN << <<"S","y","m","p","t","o","m","s",":"," ">>
                        \o join(<<","," ">>, symptom_parts) >>
                ELSE << >>)
            \o (IF mood_parts # << >>
                THEN << <<"M","o","o","d",":"," ">> \o join(<<","," ">>, mood_parts) >>
                ELSE << >>)
            \o (IF timing # << >> THEN << join(<<" ","|"," ">>, timing) >> ELSE << >>)
            \o (IF Get(log_data, "unusual_symptoms", FALSE) = TRUE
                THEN << <<"⚠","U+FE0F"," ","U","n","u","s","u","a","l"," ","s","y","m","p","t","o","m",
                          "s"," ","d","e","t","e","c","t","e","d">> >>
                ELSE << >>)
            \o (IF Has(log_data, "confidence")
                THEN << <<"C","o","n","f","i","d","e","n","c","e",":"," ">>
                        \o format_2f(log_data["confidence"]) >>
                ELSE << >>)
    IN  IF summary_parts # << >>
        THEN join(<<"\n">>, summary_parts)
        ELSE <<"N","o"," ","s","p","e","c","i","f","i","c"," ","d","e","t","a","i","l",
               "s"," ","r","e","c","o","r","d","e","d",".">>

-----------------------------------------------------------------------------
(* PeriodTracker (app.py): a tracker with its own PeriodDataStore and its own
   VoiceConversationHandler *)

NoSessionStarted == "No active session. Please start a new session first."
NoSessionToEnd == "No active session"
TranscriptionFailed == "Failed to transcribe audio"
ConversationFailed == "Failed to process conversation"

\* start_new_session
StartNewSession ==
    /\ pc = "idle"
    /\ Cardinality(DOMAIN data_store.sessions) < MaxSessions
    /\ \E id \in drawn_ids(data_store) :
         LET r == create_session(data_store, id, clock)
             d == get_session_data(r.store, id)
         IN  /\ data_store' = r.store
             /\ current_session_id' = id
             /\ response' = [ op |-> "start_new_session",
                              outcome |-> Returned,
                              value |-> [ session_id |-> id,
                                          status |-> "active",
                                          start_time |-> d.value["start_time"] ] ]
    /\ UNCHANGED << handlerVars, store, clock, ret, threadVars, server_module >>

\* end_current_session
EndCurrentSession ==
    /\ pc = "idle"
    /\ IF current_session_id = None
       THEN /\ response' = [ op |-> "end_current_session",
                             outcome |-> Returned,
                             value |-> [ error |-> NoSessionToEnd ] ]
            /\ UNCHANGED << data_store, current_session_id >>
       ELSE LET r == end_session(data_store, current_session_id, clock)
                d == get_session_data(r.store, current_session_id)
            IN  /\ data_store' = r.store
                /\ IF d.outcome # Returned
                   THEN \* line 42 raises before the tracker's id is cleared
                        /\ current_session_id' = current_session_id
                        /\ response' = [ op |-> "end_current_session",
                                         outcome |-> d.outcome ]
                   ELSE /\ current_session_id' = None
                        /\ response' =
                             [ op |-> "end_current_session",
                               outcome |-> Returned,
                               value |-> [ session_id |-> None,
                                           status |-> "completed",
                                           end_time |-> d.value["end_time"],
                                           has_missing_data |-> d.value["has_missing_data"],
                                           has_unusual_symptoms |->
                                               d.value["has_unusual_symptoms"] ] ]
    /\ UNCHANGED << handlerVars, store, clock, ret, threadVars, server_module >>

\* what os.makedirs or os.rename (lines 121-122) raises when the audio file
\* cannot be moved
FileMoveFailed == "raised OSError in os.rename"

\* process_voice_note from the return or the raise of process_conversation
\* (lines 110-140); while process_conversation waits for the user,
\* process_voice_note waits inside it.
\*   transcribed_text: what transcribe_audio returned (line 105);
\*   log_id: str(uuid.uuid4()) of line 116;
\*   move_ok: whether the audio file can be moved (lines 121-122), which is
\*   tried only after process_conversation has returned
finish_voice_note(transcribed_text, log_id) ==
    IF pc' = "awaiting"
    THEN /\ response' = [ op |-> "process_voice_note", outcome |-> Suspended,
                          transcribed_text |-> transcribed_text ]
         /\ data_store' = data_store
    ELSE IF ret'.outcome \in { SystemExitRaised, KeyboardInterruptRaised }
    THEN \* neither is an Exception: line 112 does not catch it
         /\ response' = [ op |-> "process_voice_note", outcome |-> ret'.outcome ]
         /\ data_store' = data_store
    ELSE IF ret'.outcome # Returned
    THEN /\ response' = [ op |-> "process_voice_note",
                          outcome |-> Returned,
                          value |-> [ error |-> ConversationFailed ] ]
         /\ data_store' = data_store
    ELSE \E move_ok \in BOOLEAN :
         IF ~move_ok
         THEN \* line 121 or 122 raises before anything is stored, and the
              \* exception leaves process_voice_note
              /\ response' = [ op |-> "process_voice_note", outcome |-> FileMoveFailed ]
              /\ data_store' = data_store
         ELSE LET r == add_log_to_history(data_store, result', clock)
                  d == get_session_data(r.store, current_session_id')
              IN  IF r.outcome # Returned
                  THEN /\ response' = [ op |-> "process_voice_note", outcome |-> r.outcome ]
                       /\ data_store' = data_store
                  ELSE /\ data_store' = r.store
                       /\ IF d.outcome # Returned
                          THEN response' = [ op |-> "process_voice_note", outcome |-> d.outcome ]
                          ELSE IF summary_raises(result')
                          THEN \* line 135 raises after the log is stored
                               response' = [ op |-> "process_voice_note",
                                             outcome |-> KeyErrorRaised ]
                          ELSE response' =
                                 [ op |-> "process_voice_note",
                                   outcome |-> Returned,
                                   value |-> [ log_id |-> log_id,
                                               session_id |-> current_session_id',
                                               transcribed_text |-> transcribed_text,
                                               complete_info |-> result',
                                               summary |-> format_period_summary(result'),
                                               conversation_history |-> conversation_history',
                                               session_status |-> d.value["status"],
                                               has_missing_data |-> d.value["has_missing_data"],
                                               has_unusual_symptoms |->
                                                   d.value["has_unusual_symptoms"] ] ]

\* process_voice_note(audio_file_path, session_id) up to the first wait of
\* process_conversation, or to its return or raise.
\*   stt_ok: whether transcribe_audio succeeds;  turn: what the audio says;
\*   client_ok: whether the OpenAI client can be constructed;
\*   log_id: as above
ProcessVoiceNote(sid, stt_ok, turn, client_ok, tts_ok, log_id) ==
    /\ pc = "idle"
    /\ IF sid = None /\ current_session_id = None
       THEN /\ response' = [ op |-> "process_voice_note",
                             outcome |-> Returned,
                             value |-> [ error |-> NoSessionStarted ] ]
            /\ UNCHANGED << handlerVars, ret, data_store, current_session_id >>
       ELSE /\ current_session_id' = IF sid # None THEN sid ELSE current_session_id
            /\ IF ~stt_ok
               THEN /\ response' = [ op |-> "process_voice_note",
                                     outcome |-> Returned,
                                     value |-> [ error |-> TranscriptionFailed ] ]
                    /\ UNCHANGED << handlerVars, ret, data_store >>
               ELSE /\ process_conversation(turn, client_ok, tts_ok)
                    /\ finish_voice_note(turn.text, log_id)
    /\ UNCHANGED << store, clock, threadVars, server_module >>

\* the user's reply to a question asked inside process_voice_note
VoiceNoteReply(turn, client_ok, tts_ok, log_id) ==
    /\ UNCHANGED << current_session_id, store, clock, threadVars, server_module >>
    /\ resume_conversation(turn, client_ok, tts_ok)
    /\ finish_voice_note(response.transcribed_text, log_id)

\* data_store.end_session(sid) called on the tracker's store
DataStoreEndSession ==
    /\ pc = "idle"
    /\ \E sid \in SessionIds :
         LET r == end_session(data_store, sid, clock)
         IN  /\ data_store' = r.store
             /\ response' = [ op |-> "end_session", outcome |-> r.outcome, sid |-> sid ]
    /\ UNCHANGED << handlerVars, current_session_id, store, clock, ret, threadVars,
                    server_module >>

\* the turns of the conversations of TrackerSpec
TrackerTurns == { TurnPeriod, TurnDate, TurnExit }

-----------------------------------------------------------------------------
(* api/server.py: process_audio on the module's own PeriodTracker, which is
   modelled by data_store and current_session_id *)

\* the fields of AppConfig (config/settings.py, lines 35-55)
AppConfig == { "database_url", "voice_id", "model_id", "audio_output_dir", "keywords" }

\* the settings server.py is imported with: those of the repository, and
\* those of a deployment that adds the directory line 23 reads
ServerSettings == { AppConfig, AppConfig \cup { "audio_input_dir" } }

\* what config.audio_input_dir (line 23) raises on the repository's AppConfig
AttributeErrorRaised == "raised AttributeError: audio_input_dir"

\* import period_tracker.api.server (lines 1-26).  Lines 23-24 read
\* config.audio_input_dir and config.audio_output_dir: with a field missing
\* the import raises, the module is not loaded and none of its functions can
\* be called; the next import runs the module again. With the repository's
\* settings this is what every import does.
ImportServer(settings) ==
    /\ server_module = "not imported"
    /\ pc = "idle"
    /\ IF "audio_input_dir" \in settings /\ "audio_output_dir" \in settings
       THEN /\ server_module' = "loaded"
            /\ data_store' = EmptyStore
            /\ current_session_id' = None
            /\ response' = [ op |-> "import server", outcome |-> Returned ]
       ELSE /\ response' = [ op |-> "import server", outcome |-> AttributeErrorRaised ]
            /\ UNCHANGED << server_module, data_store, current_session_id >>
    /\ UNCHANGED << handlerVars, store, clock, ret, threadVars >>

\* the module global session_id: None at import; process_audio assigns it
\* only None (line 104)
server_session_id == None

\* get_required_fields
get_required_fields == [ period |-> << "status", "flow" >>, timing |-> << "date" >> ]

\* the fields of a category that check_missing_fields finds missing: the
\* category or the field is not a key (lines 42-44)
missing_of(period_info, category) ==
    SelectSeq(get_required_fields[category],
              LAMBDA field : \/ ~Has(period_info, category)
                             \/ ~Has(period_info[category], field))

\* check_missing_fields: the categories with a missing field and those fields
check_missing_fields(period_info) ==
    [ category \in { c \in DOMAIN get_required_fields :
                          missing_of(period_info, c) # << >> }
        |-> missing_of(period_info, category) ]

AskStatus == "Could you tell me if you're starting or ending your period?"
AskFlow == "How would you describe your flow? (light, medium, or heavy)"
AskWhen == "When did this happen? (e.g., today, yesterday, 2 days ago)"
AskMore == "Is there anything else you'd like to share about your period?"

\* generate_followup_question of server.py: the questions asked, in order
\* (the code joins them with a space)
server_generate_followup_question(missing) ==
    LET questions ==
            (IF Has(missing, "period") /\ InList("status", missing["period"])
             THEN << AskStatus >> ELSE << >>)
            \o (IF Has(missing, "period") /\ InList("flow", missing["period"])
                THEN << AskFlow >> ELSE << >>)
            \o (IF Has(missing, "timing") /\ InList("date", missing["timing"])
                THEN << AskWhen >> ELSE << >>)
    IN  IF questions = << >> THEN << AskMore >> ELSE questions

TranscriptionRaised == "raised in transcribe_audio"

\* response_text of line 99
ThankYou == "Thank you for sharing your information. I've recorded your period details. Check back in soon!"

\* process_audio(file) of the loaded module.  stt_ok, tts_ok: whether
\* transcribe_audio and text_to_speech succeed;  turn: what the audio says and
\* what the completion makes of it;  client_ok: whether the OpenAI client can
\* be constructed;  audio_id: the uuid.uuid4() in the name of the file the
\* answer is spoken to (lines 102, 122)
ProcessAudio(stt_ok, turn, client_ok, tts_ok, audio_id) ==
    /\ server_module = "loaded"
    /\ pc = "idle"
    /\ stdin' = IF stt_ok THEN stdin_after_extract(client_ok, turn.llm) ELSE stdin
    /\ IF ~stt_ok
       THEN /\ response' = [ op |-> "process_audio", outcome |-> TranscriptionRaised ]
            /\ UNCHANGED << data_store, current_session_id >>
       ELSE IF call_extract_period_info(turn.text, client_ok, turn.llm).outcome # Returned
       THEN \* line 84 raises and the exception leaves process_audio (line 139)
            /\ response' =
                 [ op |-> "process_audio",
                   outcome |-> call_extract_period_info(turn.text, client_ok,
                                                        turn.llm).outcome ]
            /\ UNCHANGED << data_store, current_session_id >>
       ELSE LET period_info == call_extract_period_info(turn.text, client_ok,
                                                       turn.llm).record
                missing == check_missing_fields(period_info)
            IN  IF missing = << >>
                THEN IF server_session_id # None
                     THEN \* lines 91-111
                          LET a == add_log_to_session(data_store, server_session_id,
                                                      period_info, clock)
                              e == end_session(a.store, current_session_id, clock)
                              d == get_session_data(e.store, current_session_id)
                          IN  IF a.outcome # Returned
                              THEN /\ response' = [ op |-> "process_audio",
                                                    outcome |-> a.outcome ]
                                   /\ UNCHANGED << data_store, current_session_id >>
                              ELSE IF current_session_id = None
                              THEN /\ data_store' = a.store
                                   /\ UNCHANGED current_session_id
                                   /\ response' =
                                        IF tts_ok
                                        THEN [ op |-> "process_audio", outcome |-> Returned,
                                               status |-> "complete",
                                               message |-> ThankYou,
                                               audio_url |-> audio_id,
                                               period_info |-> period_info,
                                               session_data |-> [ error |-> NoSessionToEnd ] ]
                                        ELSE [ op |-> "process_audio",
                                               outcome |-> SynthesisFailed ]
                              ELSE /\ data_store' = e.store
                                   /\ current_session_id' =
                                        IF d.outcome = Returned THEN None
                                        ELSE current_session_id
                                   /\ response' =
                                        IF d.outcome # Returned
                                        THEN [ op |-> "process_audio", outcome |-> d.outcome ]
                                        ELSE IF tts_ok
                                        THEN [ op |-> "process_audio", outcome |-> Returned,
                                               status |-> "complete",
                                               message |-> ThankYou,
                                               audio_url |-> audio_id,
                                               period_info |-> period_info,
                                               session_data |->
                                                 [ session_id |-> None,
                                                   status |-> "completed",
                                                   end_time |-> d.value["end_time"],
                                                   has_missing_data |->
                                                       d.value["has_missing_data"],
                                                   has_unusual_symptoms |->
                                                       d.value["has_unusual_symptoms"] ] ]
                                        ELSE [ op |-> "process_audio",
                                               outcome |-> SynthesisFailed ]
                     ELSE \* lines 112-117
                          /\ response' = [ op |-> "process_audio", outcome |-> Returned,
                                           status |-> "complete_no_session",
                                           period_info |-> period_info ]
                          /\ UNCHANGED << data_store, current_session_id >>
                ELSE \* lines 118-136
                     /\ response' =
                          IF tts_ok
                          THEN [ op |-> "process_audio", outcome |-> Returned,
                                 status |-> "needs_more_info",
                                 message |-> server_generate_followup_question(missing),
                                 audio_url |-> audio_id,
                                 missing_fields |-> missing,
                                 session_id |-> IF server_session_id # None
                                                THEN server_session_id ELSE "",
                                 conversation_history |-> conversation_history ]
                          ELSE [ op |-> "process_audio", outcome |-> SynthesisFailed ]
                     /\ UNCHANGED << data_store, current_session_id >>
    /\ UNCHANGED << conversationVars, store, clock, ret, threadVars, server_module >>

\* check_missing_fields(period_info) of the loaded server.py and the
\* handler's _check_required_fields called on the same record
CheckMissingFields(period_info) ==
    /\ server_module = "loaded"
    /\ ret' = [ op |-> "check_missing_fields",
                outcome |-> Returned,
                data |-> period_info,
                missing |-> check_missing_fields(period_info),
                handler_missing |-> check_required_fields(period_info).missing ]
    /\ UNCHANGED << handlerVars, trackerVars, store, clock, threadVars >>

\* what the audio handed to process_audio says
ServerTurns == { TurnComplete, TurnFlowDate, TurnPeriod, TurnMood,
                [ text |-> TurnFlowDate.text, llm |-> [ kind |-> "fail" ] ],
                TurnExit }

-----------------------------------------------------------------------------
(* Specifications *)

\* the id uuid.uuid4() gives to the session of the handler's own store: the
\* ids are interchangeable and that store never holds a second session
HandlerSessionIds == { CHOOSE id \in drawn_ids(EmptyStore) : TRUE }

\* VoiceConversationHandler.__init__ and PeriodDataStore.__init__
Init ==
    /\ current_question = 0
    /\ conversation_history = << >>
    /\ \E id \in HandlerSessionIds :
         /\ hstore = create_session(EmptyStore, id, 0).store
         /\ session_id = id
    /\ pc = "idle"
    /\ result = EmptyDict
    /\ missing_fields = << >>
    /\ extract_calls = 0
    /\ extract_total = 0
    /\ conv_no = 0
    /\ turn_log = << >>
    /\ tts_failures = 0
    /\ store = EmptyStore
    /\ clock = 0
    /\ ret = [ op |-> "init", outcome |-> Returned ]
    /\ asked = << >>
    /\ data_store = EmptyStore
    /\ current_session_id = None
    /\ response = [ op |-> "init", outcome |-> Returned ]
    /\ running = EmptyBag
    /\ calls_made = 0
    /\ stdin = "open"
    /\ server_module = "not imported"

\* one VoiceConversationHandler serving conversations
Next ==
    \/ \E turn \in Turns, client_ok \in BOOLEAN, tts_ok \in BOOLEAN :
         StartConversation(turn, client_ok, tts_ok)
    \/ \E turn \in Replies(Turns), client_ok \in BOOLEAN, tts_ok \in BOOLEAN :
         UserReply(turn, client_ok, tts_ok)
    \/ EndConversation

Spec == Init /\ [][Next]_vars

\* one PeriodDataStore called through its public methods, all calls made at
\* the same reading of the clock
StoreNext ==
    \/ CreateSession
    \/ AddLogToSession
    \/ AddLogToHistory
    \/ EndSession
    \/ GetSessionData

StoreSpec == Init /\ [][StoreNext]_vars

\* the same store with time passing between the calls
TimedStoreNext ==
    \/ StoreNext
    \/ Tick

TimedStoreSpec == Init /\ [][TimedStoreNext]_vars

\* a PeriodTracker whose sessions, and whose handler's session, are ended
\* through each of the end operations
SessionsNext ==
    \/ StartNewSession
    \/ EndCurrentSession
    \/ DataStoreEndSession
    \/ EndConversation
    \/ \E sid \in SessionIds \cup { None }, client_ok \in BOOLEAN, tts_ok \in BOOLEAN,
          log_id \in file_ids :
         ProcessVoiceNote(sid, TRUE, TurnPeriod, client_ok, tts_ok, log_id)
    \/ \E turn \in Replies({ TurnDate }), client_ok \in BOOLEAN, tts_ok \in BOOLEAN,
          log_id \in file_ids :
         VoiceNoteReply(turn, client_ok, tts_ok, log_id)

SessionsSpec == Init /\ [][SessionsNext]_vars

\* the turns of the conversations of AskSpec: one of them is complete by
\* itself, and the reply of one makes eval() call exit(), which closes the
\* standard input and raises SystemExit
AskTurns == { TurnComplete, TurnPeriod, TurnMood, TurnExit }

\* one VoiceConversationHandler serving conversations, some of them complete
\* at the first extraction
AskNext ==
    \/ \E turn \in AskTurns, client_ok \in BOOLEAN, tts_ok \in BOOLEAN :
         StartConversation(turn, client_ok, tts_ok)
    \/ \E turn \in Replies(AskTurns), client_ok \in BOOLEAN, tts_ok \in BOOLEAN :
         UserReply(turn, client_ok, tts_ok)
    \/ EndConversation

AskSpec == Init /\ [][AskNext]_vars

\* api/server.py: its import, then its PeriodTracker and process_audio
ServerNext ==
    \/ \E settings \in ServerSettings : ImportServer(settings)
    \/ server_module = "loaded" /\ StartNewSession
    \/ server_module = "loaded" /\ EndCurrentSession
    \/ \E stt_ok \in BOOLEAN, turn \in ServerTurns, client_ok \in BOOLEAN,
          tts_ok \in BOOLEAN, audio_id \in file_ids :
         ProcessAudio(stt_ok, turn, client_ok, tts_ok, audio_id)
    \/ \E period_info \in Records \cup { TurnFlowDate.llm.content } :
         CheckMissingFields(period_info)

ServerSpec == Init /\ [][ServerNext]_vars

\* extract_period_info called by itself
ExtractNext == ExtractPeriodInfo

ExtractSpec == Init /\ [][ExtractNext]_vars

\* a PeriodDataStore called from the threads
ThreadNext ==
    \/ CreateSessionWrite
    \/ CreateSessionSetCurrent
    \/ ThreadAddLogToSession
    \/ AddLogToHistoryTest
    \/ AddLogToHistoryAppend
    \/ EndSessionSetTime
    \/ EndSessionSetStatus
    \/ EndSessionClearCurrent
    \/ GetSessionDataTimes
    \/ GetSessionDataStatus
    \/ GetSessionDataMissing
    \/ GetSessionDataUnusual
    \/ GetSessionDataReturn
    \/ GetStatsStart
    \/ GetStatsActive
    \/ GetStatsCompleted
    \/ GetStatsTotalLogs
    \/ GetStatsMissingData
    \/ GetStatsUnusualSymptoms
    \/ GetStatsReturn

ThreadSpec == Init /\ [][ThreadNext]_vars

\* one VoiceConversationHandler whose question generator is also called
\* directly between its conversations
HelperNext ==
    \/ \E turn \in HelperTurns, client_ok \in BOOLEAN, tts_ok \in BOOLEAN :
         StartConversation(turn, client_ok, tts_ok)
    \/ \E turn \in Replies(HelperTurns), client_ok \in BOOLEAN, tts_ok \in BOOLEAN :
         UserReply(turn, client_ok, tts_ok)
    \/ \E missing \in MissingLists, current_data \in GenRecords :
          GenerateFollowupQuestion(missing, current_data)

HelperSpec == Init /\ [][HelperNext]_vars

\* one VoiceConversationHandler whose checks, and those of its store, are
\* also called directly between its conversations
ChecksNext ==
    \/ \E turn \in HelperTurns, client_ok \in BOOLEAN, tts_ok \in BOOLEAN :
         StartConversation(turn, client_ok, tts_ok)
    \/ \E turn \in Replies(HelperTurns), client_ok \in BOOLEAN, tts_ok \in BOOLEAN :
         UserReply(turn, client_ok, tts_ok)
    \/ \E data \in Records : CheckRequiredFields(data)
    \/ \E log_data \in Records : CheckForMissingData(log_data)

ChecksSpec == Init /\ [][ChecksNext]_vars

\* one PeriodTracker called through its methods
TrackerNext ==
    \/ StartNewSession
    \/ EndCurrentSession
    \/ \E sid \in SessionIds \cup { None }, log_id \in file_ids :
         \* transcribe_audio fails: the call gets no further
         ProcessVoiceNote(sid, FALSE, TurnPeriod, TRUE, TRUE, log_id)
    \/ \E sid \in SessionIds \cup { None }, turn \in TrackerTurns,
          client_ok \in BOOLEAN, tts_ok \in BOOLEAN, log_id \in file_ids :
         ProcessVoiceNote(sid, TRUE, turn, client_ok, tts_ok, log_id)
    \/ \E turn \in Replies(TrackerTurns), client_ok \in BOOLEAN, tts_ok \in BOOLEAN,
          log_id \in file_ids :
         VoiceNoteReply(turn, client_ok, tts_ok, log_id)

TrackerSpec == Init /\ [][TrackerNext]_vars

-----------------------------------------------------------------------------
(* Properties *)

\* the logs of the handler's session in the handler's own store
HandlerLogs == hstore.sessions[CHOOSE id \in DOMAIN hstore.sessions : TRUE]["logs"]

\* the last entry of a non-empty log sequence
LastLog(logs) == logs[Len(logs)]

\* the content of the last turn of the history
LastContent == conversation_history[Len(conversation_history)].content

\* process_conversation has just stored its record and returned
Finalized ==
    /\ pc = "idle"
    /\ ret.op = "process_conversation"
    /\ ret.outcome = Returned
    /\ session_id # None

\* some turn of the current conversation gave period.status or period.flow
SeenPeriod ==
    \E i \in 1..Len(turn_log) :
        AnyField(Get(turn_log[i], "period", EmptyDict), << "status", "flow" >>)

\* some turn of the current conversation gave timing.date
SeenDate ==
    \E i \in 1..Len(turn_log) :
        AnyField(Get(turn_log[i], "timing", EmptyDict), << "date" >>)

\* C1: within one conversation, once the accumulated record's unusual_symptoms
\* flag is true it is true after every later merge, and in the LogEntry stored
\* when the conversation finalizes.
C1_UnusualMonotonic ==
    [][ (pc = "awaiting" /\ result["unusual_symptoms"])
          => /\ result'["unusual_symptoms"]
             /\ Finalized' => LastLog(HandlerLogs')["unusual_symptoms"] ]_vars

\* the extractor raised out of process_conversation
ExtractionRaised == { ClientError, SystemExitRaised }

\* the outcomes of a process_conversation in which input() raised
InputRaised == { EndOfInput, StdinClosed, KeyboardInterruptRaised }

\* C2: on a fresh handler process_conversation makes at most max_questions + 1
\* = 6 calls of the extractor, whatever the replies were, and with the sixth
\* the call is over: it has stored its record and returned, or the sixth call
\* of the extractor has itself raised and nothing is stored.
C2_AtMostSixExtractions ==
    conv_no = 1 =>
        /\ extract_calls <= 6
        /\ extract_calls = 6 =>
             /\ pc = "idle"
             /\ session_id # None =>
                  /\ ret.op = "process_conversation"
                  /\ ret.outcome \in { Returned } \cup ExtractionRaised
                  /\ Len(HandlerLogs) = (IF ret.outcome = Returned THEN 1 ELSE 0)

C2_Witness ==
    /\ conv_no = 1
    /\ extract_calls = 6
    /\ missing_fields # << >>
    /\ Finalized
    /\ Len(HandlerLogs) = 1

\* C3: appending a log to a completed session (add_log_to_session or
\* add_log_to_history) fails and leaves that session unchanged.
C3_NoAppendToCompleted ==
    [][ \A sid \in DOMAIN store.sessions :
          ( /\ store.sessions[sid]["status"] = "completed"
            /\ ret'.op \in { "add_log_to_session", "add_log_to_history" }
            /\ ret'.sid = sid )
          => /\ ret'.outcome # Returned
             /\ store'.sessions[sid] = store.sessions[sid] ]_vars

\* C4: when the turns of a conversation together gave period.status or
\* period.flow and timing.date, the accumulated record has no missing slot, and
\* the entry stored at finalize has has_missing_data = false.
C4_SlotsAccumulate ==
    (SeenPeriod /\ SeenDate) =>
        /\ missing_fields = << >>
        /\ Finalized => ~LastLog(HandlerLogs)["has_missing_data"]

\* C5: every symptom and every mood entry extracted in a turn of the
\* conversation is in the record stored at finalize.
C5_ListsUnioned ==
    Finalized =>
        LET stored == LastLog(HandlerLogs)["data"]
        IN  \A i \in 1..Len(turn_log) :
              /\ \A j \in 1..Len(Get(turn_log[i], "symptoms", << >>)) :
                    \E k \in 1..Len(Get(stored, "symptoms", << >>)) :
                        stored["symptoms"][k] = turn_log[i]["symptoms"][j]
              /\ \A j \in 1..Len(Get(turn_log[i], "mood", << >>)) :
                    \E k \in 1..Len(Get(stored, "mood", << >>)) :
                        stored["mood"][k] = turn_log[i]["mood"][j]

\* C6: end_session on a session that an earlier end_session completed raises
\* nothing and leaves the session (status, end_time, logs) as it was.
C6_EndSessionIdempotent ==
    [][ ( /\ ret'.op = "end_session"
          /\ ret'.sid \in DOMAIN store.sessions
          /\ store.sessions[ret'.sid]["status"] = "completed" )
        => /\ ret'.outcome = Returned
           /\ store'.sessions[ret'.sid] = store.sessions[ret'.sid] ]_vars

\* C7: end_session with an id the store does not hold fails with NotFound and
\* leaves the store unchanged.
C7_EndSessionUnknownFails ==
    [][ (ret'.op = "end_session" /\ ret'.sid \notin DOMAIN store.sessions)
        => (ret'.outcome = SessionNotFound /\ store' = store) ]_vars

\* C8: add_log_to_session with an id the store does not hold fails with
\* NotFound (ValueError "Session ... not found") and leaves the store, hence
\* every session of it, unchanged.
C8_AddLogUnknownFails ==
    [][ (ret'.op = "add_log_to_session" /\ ret'.sid \notin DOMAIN store.sessions)
        => (ret'.outcome = SessionNotFound /\ store' = store) ]_vars

C8_Witness ==
    /\ ret.op = "add_log_to_session"
    /\ ret.outcome = SessionNotFound
    /\ ret.sid \notin DOMAIN store.sessions
    /\ store.sessions # EmptyDict

\* C9: when "period" is in the missing list handed to the generator and the
\* record has no flow, the question asked is the flow-intensity question.
C9_FlowQuestionFirst ==
    ( /\ pc = "awaiting"
      /\ InList("period", missing_fields)
      /\ ~AnyField(Get(result, "period", EmptyDict), << "flow" >>) )
    => LastContent = FlowQuestion

\* C10: first match wins: the date question is produced exactly when "date" is
\* missing and "period" is not; when both are missing a period question is
\* produced.
C10_DateQuestionPriority ==
    /\ \A m \in MissingLists :
         /\ generate_followup_question(m, result) = DateQuestion
              <=> (InList("date", m) /\ ~InList("period", m))
         /\ (InList("date", m) /\ InList("period", m))
              => generate_followup_question(m, result) \in { FlowQuestion, StatusQuestion }
    /\ pc = "awaiting" =>
         /\ LastContent = DateQuestion
              <=> (InList("date", missing_fields) /\ ~InList("period", missing_fields))
         /\ (InList("date", missing_fields) /\ InList("period", missing_fields))
              => LastContent \in { FlowQuestion, StatusQuestion }

\* both missing in the first round (a period question), then only the date
C10_Witness ==
    /\ pc = "awaiting"
    /\ Len(conversation_history) = 4
    /\ conversation_history[2].content = StatusQuestion
    /\ conversation_history[4].content = DateQuestion
    /\ missing_fields = << "date" >>

\* C11: the generator returns "" when the missing list is empty and a
\* non-empty question for every non-empty missing list, called directly or
\* inside a conversation.
C11_EmptyIffNoneMissing ==
    /\ ret.op = "_generate_followup_question" => (ret.value = "" <=> ret.missing = << >>)
    /\ asked # << >> => (asked[1].value = "" <=> asked[1].missing = << >>)
    /\ pc = "awaiting" => LastContent # ""

\* one call with a non-empty list gave a question, a later one with the empty
\* list gave ""
C11_Witness ==
    /\ asked # << >>
    /\ asked[1].missing # << >>
    /\ asked[1].value # ""
    /\ ret.op = "_generate_followup_question"
    /\ ret.missing = << >>
    /\ ret.value = ""

\* the missing list m names exactly the slots of record d that fail the schema
ExactlyFailing(m, d) ==
    LET period_data == Get(d, "period", EmptyDict)
        timing_data == Get(d, "timing", EmptyDict)
        period_met == Has(period_data, "status") \/ Has(period_data, "flow")
        date_met == Has(timing_data, "date")
    IN  /\ InList("period", m) <=> ~period_met
        /\ InList("date", m) <=> ~date_met
        /\ m = << >> <=> (period_met /\ date_met)
        /\ \A i \in 1..Len(m) : m[i] \in { "period", "date" }

\* C13: _check_required_fields returns exactly the failing slots: "period" iff
\* neither period.status nor period.flow is present, "date" iff timing.date is
\* not present, nothing else, and the empty list iff both requirements are met.
C13_MissingExactlyFailing ==
    /\ ret.op = "_check_required_fields" => ExactlyFailing(ret.value, ret.data)
    /\ turn_log # << >> => ExactlyFailing(missing_fields, result)

\* a record with a period (status) and a timing without a date: only the date
C13_Witness ==
    /\ ret.op = "_check_required_fields"
    /\ Has(ret.data, "period")
    /\ Has(ret.data["period"], "status")
    /\ Has(ret.data, "timing")
    /\ ret.value = << "date" >>

\* C14: the completeness checks (_check_required_fields of the handler,
\* _check_for_missing_data of the store) return without raising on every
\* well-formed record and leave the record they were given unchanged.
C14_ChecksPureAndTotal ==
    ret.op \in { "_check_required_fields", "_check_for_missing_data" }
        => (ret.outcome = Returned /\ ret.after = ret.data)

\* every turn of the current conversation gave a mood and nothing else
AllMood ==
    /\ turn_log # << >>
    /\ \A i \in 1..Len(turn_log) : turn_log[i] = MoodRecord

\* C15: in the conversation of a new handler whose every turn gives only a
\* mood, process_conversation finalizes when the turn counter reaches 5 and not
\* before, and then the handler's session holds exactly one LogEntry, with
\* has_missing_data = true.
C15_MoodOnlyFinalizesAtLimit ==
    (conv_no = 1 /\ session_id # None /\ AllMood) =>
        /\ current_question <= 5
        /\ current_question = 5 =>
             /\ Finalized
             /\ Len(HandlerLogs) = 1
             /\ LastLog(HandlerLogs)["has_missing_data"] = TRUE
        /\ current_question < 5 =>
             /\ ~Finalized
             /\ HandlerLogs = << >>

\* the initial text and five replies, all about the mood
C15_Witness ==
    /\ conv_no = 1
    /\ AllMood
    /\ Len(turn_log) = 6
    /\ current_question = 5
    /\ Finalized
    /\ Len(HandlerLogs) = 1
    /\ LastLog(HandlerLogs)["has_missing_data"] = TRUE

\* C16: the LogEntry stored at finalize holds the record, has_missing_data is
\* true exactly when the handler's missing list at that time is non-empty, and
\* unusual_symptoms is the record's flag; the store's _check_for_missing_data
\* and the handler's _check_required_fields agree on every accumulated record.
C16_LogEntryMatchesRecord ==
    /\ check_for_missing_data(result) = (check_required_fields(result).missing # << >>)
    /\ Finalized =>
         /\ LastLog(HandlerLogs)["data"] = result
         /\ LastLog(HandlerLogs)["has_missing_data"] = (missing_fields # << >>)
         /\ LastLog(HandlerLogs)["unusual_symptoms"] = Get(result, "unusual_symptoms", FALSE)

\* a record finalized at the turn limit: a required field is still missing,
\* the flag is set
C16_Witness ==
    /\ Finalized
    /\ current_question = max_questions
    /\ missing_fields # << >>
    /\ result["unusual_symptoms"] = TRUE
    /\ LastLog(HandlerLogs)["has_missing_data"] = TRUE
    /\ LastLog(HandlerLogs)["unusual_symptoms"] = TRUE

\* the step is one in which a process_voice_note stored its record
VoiceNoteStored ==
    /\ extract_total' # extract_total
    /\ pc' = "idle"
    /\ ret'.outcome = Returned

\* C17: when process_voice_note is called for an existing active session S of
\* the tracker's store (passed as session_id, or the one start_new_session
\* made), the LogEntry of the finalized record is appended to the logs of S,
\* no other session of the store changes, and the flags returned are those of
\* S.
C17_LogGoesToItsSession ==
    [][ ( /\ VoiceNoteStored
          /\ current_session_id' \in DOMAIN data_store.sessions
          /\ data_store.sessions[current_session_id']["status"] = "active" )
        => LET S == current_session_id'
               before == data_store.sessions[S]["logs"]
               after == data_store'.sessions[S]["logs"]
           IN  /\ response'.outcome = Returned
               /\ Len(after) = Len(before) + 1
               /\ SubSeq(after, 1, Len(before)) = before
               /\ LastLog(after)["data"] = result'
               /\ \A other \in DOMAIN data_store.sessions \ { S } :
                    data_store'.sessions[other] = data_store.sessions[other]
               /\ response'.value["has_missing_data"]
                    = any_log(after, "has_missing_data")
               /\ response'.value["has_unusual_symptoms"]
                    = any_log(after, "unusual_symptoms") ]_vars

\* C18: a session's status only moves from active to completed: no store
\* operation removes a session or makes a completed session active again, and
\* after every operation a session has an end_time iff its status is completed.
C18_StatusOnlyCompletes ==
    [][ /\ \A sid \in DOMAIN store.sessions :
             /\ sid \in DOMAIN store'.sessions
             /\ store.sessions[sid]["status"] = "completed"
                  => store'.sessions[sid]["status"] = "completed"
        /\ \A sid \in DOMAIN store'.sessions :
             /\ store'.sessions[sid]["status"] \in { "active", "completed" }
             /\ Has(store'.sessions[sid], "end_time")
                  <=> store'.sessions[sid]["status"] = "completed" ]_vars

\* a log was added to a session after it was completed: it is still completed
\* and has its end_time, next to an active session without one
C18_Witness ==
    /\ ret.op = "add_log_to_session"
    /\ ret.outcome = Returned
    /\ store.sessions[ret.sid]["status"] = "completed"
    /\ Has(store.sessions[ret.sid], "end_time")
    /\ \E other \in DOMAIN store.sessions :
         /\ store.sessions[other]["status"] = "active"
         /\ ~Has(store.sessions[other], "end_time")

\* C19: the logs of a session are append-only: every store operation leaves
\* each session's earlier logs as a prefix of its logs, so no LogEntry is ever
\* changed, removed or reordered.
C19_LogsAppendOnly ==
    [][ \A sid \in DOMAIN store.sessions :
          /\ sid \in DOMAIN store'.sessions
          /\ Len(store'.sessions[sid]["logs"]) >= Len(store.sessions[sid]["logs"])
          /\ SubSeq(store'.sessions[sid]["logs"], 1, Len(store.sessions[sid]["logs"]))
               = store.sessions[sid]["logs"] ]_vars

\* a second, different entry was appended by add_log_to_history behind the
\* first one
C19_Witness ==
    /\ ret.op = "add_log_to_history"
    /\ ret.outcome = Returned
    /\ Len(store.sessions[ret.sid]["logs"]) = 2
    /\ store.sessions[ret.sid]["logs"][1]["data"] # store.sessions[ret.sid]["logs"][2]["data"]

\* C21: create_session adds exactly one session to the store: the new session is
\* the dict { session_id, start_time, logs, status } with status active, no
\* logs, the time of the call as start_time and no end_time key; it becomes the
\* store's current session and every other session is left as it was.
C21_CreateAddsOneActiveSession ==
    [][ ret'.op = "create_session" =>
          /\ Cardinality(DOMAIN store'.sessions) = Cardinality(DOMAIN store.sessions) + 1
          /\ store'.sessions[ret'.value]
                = [ session_id |-> ret'.value, start_time |-> clock,
                    logs |-> << >>, status |-> "active" ]
          /\ ~Has(store'.sessions[ret'.value], "end_time")
          /\ store'.current_session_id = ret'.value
          /\ \A sid \in DOMAIN store'.sessions \ { ret'.value } :
                /\ sid \in DOMAIN store.sessions
                /\ store'.sessions[sid] = store.sessions[sid] ]_vars

\* a session was created while the session created before it is still active
\* and holds a log
C21_Witness ==
    /\ ret.op = "create_session"
    /\ ~Has(store.sessions[ret.value], "end_time")
    /\ store.sessions[ret.value]["logs"] = << >>
    /\ \E other \in DOMAIN store.sessions \ { ret.value } :
         /\ store.sessions[other]["status"] = "active"
         /\ store.sessions[other]["logs"] # << >>

\* C22: for every session the store holds, get_session_data returns, and its
\* has_missing_data and has_unusual_symptoms are the OR of that flag over all
\* the log entries the session holds at the read (false when it holds none).
C22_FlagsAreOrOverLogs ==
    [][ ret'.op = "get_session_data" /\ ret'.sid \in DOMAIN store.sessions =>
          LET logs == store.sessions[ret'.sid]["logs"]
          IN  /\ ret'.outcome = Returned
              /\ ret'.session["has_missing_data"]
                    = (\E i \in 1..Len(logs) : Get(logs[i], "has_missing_data", FALSE))
              /\ ret'.session["has_unusual_symptoms"]
                    = (\E i \in 1..Len(logs) : Get(logs[i], "unusual_symptoms", FALSE)) ]_vars

\* C23: every result of get_stats describes one snapshot of the store, also
\* when sessions are created or ended or logs appended while it is computed:
\* total_sessions = active_sessions + completed_sessions, and total_logs is the
\* number of log entries of the sessions counted.
C23_StatsOneSnapshot ==
    [][ ret'.op = "get_stats" /\ ret'.outcome = Returned =>
          /\ ret'.statistics.total_sessions
                = ret'.statistics.active_sessions + ret'.statistics.completed_sessions
          /\ ret'.statistics.total_logs = LogCount(store) ]_vars

\* C24: a reader that runs next to end_session or an append sees no partial
\* update: get_session_data never returns a session that has an end_time while
\* its status is active, and every log entry it returns carries its
\* has_missing_data and unusual_symptoms flags.
C24_NoPartialUpdateRead ==
    [][ ret'.op = "get_session_data" /\ ret'.outcome = Returned =>
          /\ ~(ret'.session["end_time"] # None /\ ret'.session["status"] = "active")
          /\ \A i \in 1..Len(ret'.session["logs"]) :
                /\ Has(ret'.session["logs"][i], "has_missing_data")
                /\ Has(ret'.session["logs"][i], "unusual_symptoms") ]_vars

\* C25: when text-to-speech of a follow-up question fails, process_conversation
\* still finalizes: it returns, and the record accumulated so far is appended
\* as a log entry to the handler's session.
C25_TtsFailureStillFinalizes ==
    [][ tts_failures' > tts_failures =>
          /\ ret'.op = "process_conversation"
          /\ ret'.outcome = Returned
          /\ Len(HandlerLogs') = Len(HandlerLogs) + 1
          /\ LastLog(HandlerLogs')["data"] = result' ]_vars

\* C29: in every record committed at finalize, unusual_symptoms is true when
\* some entry of the record's symptoms has a type or a severity that contains a
\* token of the unusual-symptom lexicon (severity "severe" among them).
C29_CommittedFlagCoversSymptoms ==
    Finalized =>
        LET data == LastLog(HandlerLogs)["data"]
            symptoms == Get(data, "symptoms", << >>)
        IN  (\E i \in 1..Len(symptoms) :
                \/ MatchesUnusual(Get(symptoms[i], "type", << >>))
                \/ MatchesUnusual(Get(symptoms[i], "severity", << >>)))
            => /\ Get(data, "unusual_symptoms", FALSE) = TRUE
               /\ LastLog(HandlerLogs)["unusual_symptoms"] = TRUE

\* C27: end_conversation on a handler that has a session leaves the record
\* accumulated by the conversation as a log entry of that session and the
\* session completed, and does not increase the turn counter.
C27_EndConversationCommits ==
    [][ ret'.op = "end_conversation" /\ session_id # None /\ result # EmptyDict =>
          /\ \E i \in 1..Len(HandlerLogs') : HandlerLogs'[i]["data"] = result
          /\ hstore'.sessions[session_id]["status"] = "completed"
          /\ current_question' <= current_question ]_vars

\* C30: every conversation starts from the handler's initial state: whenever
\* process_conversation is entered, for the first conversation of a
\* PeriodTracker or a later one, the turn counter is 0 and the conversation
\* history is empty.
C30_ConversationStartsFresh ==
    [][ conv_no' = conv_no + 1 =>
          /\ current_question = 0
          /\ conversation_history = << >> ]_vars

\* C26: when the completion is unavailable (the client cannot be constructed or
\* the call fails) or its reply is malformed, extract_period_info does not
\* raise: it returns a record with the keys period, symptoms, mood, timing and
\* unusual_symptoms, confidence 0.5 and an error marker.
C26_ExtractorNeverRaises ==
    ret.op = "extract_period_info" /\ (~ret.client_ok \/ ret.kind # "ok") =>
        /\ ret.outcome = Returned
        /\ { "period", "symptoms", "mood", "timing", "unusual_symptoms", "error" }
              \subseteq DOMAIN ret.record
        /\ ret.record["confidence"] = 50

\* the active sessions of store s can all be ended: end_session called on any
\* of them leaves it completed
CanEndAll(s) ==
    \A sid \in DOMAIN s.sessions :
        s.sessions[sid]["status"] = "active"
            => end_session(s, sid, clock).store.sessions[sid]["status"] = "completed"

\* C28: no session is left permanently active. In every reachable state every
\* active session of the tracker's store can be ended by end_session, and the
\* session of the handler's own store, while active, is the one end_conversation
\* ends; and whenever end_session, end_current_session or end_conversation is
\* called on an active session, the session is completed afterwards.
C28_ActiveSessionsCanBeEnded ==
    [][ /\ CanEndAll(data_store)' /\ CanEndAll(hstore)'
        /\ \A sid \in DOMAIN hstore'.sessions :
              hstore'.sessions[sid]["status"] = "active" => session_id' = sid
        /\ response'.op = "end_session" /\ response'.sid \in DOMAIN data_store.sessions
              => data_store'.sessions[response'.sid]["status"] = "completed"
        /\ response'.op = "end_current_session"
              /\ current_session_id \in DOMAIN data_store.sessions
              => data_store'.sessions[current_session_id]["status"] = "completed"
        /\ ret'.op = "end_conversation" /\ session_id # None
              => hstore'.sessions[session_id]["status"] = "completed" ]_vars

\* end_session has ended the tracker's current session, which holds the log of
\* a voice note, next to another session that is still active, after
\* end_conversation ended the handler's session
C28_Witness ==
    /\ response.op = "end_session"
    /\ response.sid = current_session_id
    /\ response.sid \in DOMAIN data_store.sessions
    /\ data_store.sessions[response.sid]["status"] = "completed"
    /\ data_store.sessions[response.sid]["logs"] # << >>
    /\ \E other \in DOMAIN data_store.sessions :
         data_store.sessions[other]["status"] = "active"
    /\ ret.op = "end_conversation"
    /\ \A sid \in DOMAIN hstore.sessions : hstore.sessions[sid]["status"] = "completed"

\* sequence a is the beginning of sequence b
IsPrefix(a, b) == Len(a) <= Len(b) /\ SubSeq(b, 1, Len(a)) = a

\* C31: during a conversation the history is append-only: every step of the
\* handler leaves the earlier history as the beginning of the new one, so no
\* turn is removed, reordered or changed in role or content; only
\* end_conversation, which ends the conversation, empties it.
C31_HistoryAppendOnly ==
    [][ \/ IsPrefix(conversation_history, conversation_history')
        \/ ret'.op = "end_conversation" /\ conversation_history' = << >> ]_vars

\* two questions were asked and answered, and a third is waiting: the history
\* holds the user's first turn and the turns of the questions in order
C31_Witness ==
    /\ pc = "awaiting"
    /\ current_question = 2
    /\ Len(conversation_history) = 6
    /\ \A i \in 1..6 :
         conversation_history[i].role = IF i % 2 = 1 THEN "user" ELSE "assistant"

\* C32: end_current_session on a tracker whose current session is active
\* returns the id of the session it ended, status completed, and that
\* session's has_missing_data and has_unusual_symptoms aggregates.
C32_EndReturnsEndedSession ==
    [][ /\ response'.op = "end_current_session"
        /\ current_session_id \in DOMAIN data_store.sessions
        /\ data_store.sessions[current_session_id]["status"] = "active"
        => LET logs == data_store'.sessions[current_session_id]["logs"]
           IN  /\ response'.outcome = Returned
               /\ response'.value["session_id"] = current_session_id
               /\ response'.value["status"] = "completed"
               /\ response'.value["has_missing_data"] = any_log(logs, "has_missing_data")
               /\ response'.value["has_unusual_symptoms"] = any_log(logs, "unusual_symptoms")
      ]_vars

\* C33: when a session has been started with start_new_session and a voice
\* turn handed to process_audio yields a record with no missing required
\* field, the result has status complete and the record has been appended to
\* that session's logs; the only statuses returned are complete and
\* needs_more_info.
C33_CompleteTurnIsStored ==
    [][ response'.op = "process_audio" /\ response'.outcome = Returned =>
          /\ response'.status \in { "complete", "needs_more_info" }
          /\ /\ current_session_id \in DOMAIN data_store.sessions
             /\ check_missing_fields(response'.period_info) = << >>
             => /\ response'.status = "complete"
                /\ LET logs == data_store'.sessions[current_session_id]["logs"]
                   IN  /\ Len(logs) = Len(data_store.sessions[current_session_id]["logs"]) + 1
                       /\ LastLog(logs)["data"] = response'.period_info ]_vars

\* C36: check_missing_fields of server.py classifies every record as the
\* handler's _check_required_fields does: it reports nothing missing exactly
\* when the record has at least one of period.status / period.flow and has
\* timing.date, which is when the handler's check reports nothing missing.
C36_ServerCheckAgreesWithHandler ==
    ret.op = "check_missing_fields" =>
        /\ (ret.missing = << >>) <=> (ret.handler_missing = << >>)
        /\ (ret.missing = << >>)
              <=> /\ AnyField(Get(ret.data, "period", EmptyDict), << "status", "flow" >>)
                  /\ AnyField(Get(ret.data, "timing", EmptyDict), << "date" >>)

\* the record has nothing in period, symptoms, mood and timing
AllEmpty(r) ==
    /\ Get(r, "period", EmptyDict) = EmptyDict
    /\ Get(r, "symptoms", << >>) = << >>
    /\ Get(r, "mood", << >>) = << >>
    /\ Get(r, "timing", EmptyDict) = EmptyDict

\* C34: for the empty transcript the extractor's all-empty record has
\* confidence 0 and unusual_symptoms false, and the completeness check on it
\* reports exactly period and date as missing.
C34_EmptyTranscriptRecord ==
    /\ ret.op = "extract_period_info"
    /\ ret.text = << >>
    /\ ret.outcome = Returned
    /\ AllEmpty(ret.record)
    => /\ ret.record["confidence"] = 0
       /\ ret.record["unusual_symptoms"] = FALSE
       /\ check_required_fields(ret.record).missing = << "period", "date" >>

\* the questions in the history
AssistantTurns ==
    Cardinality({ i \in 1..Len(conversation_history) :
                    conversation_history[i].role = "assistant" })

\* C35: in process_conversation a follow-up question is asked exactly when a
\* required field is missing and the counter is below max_questions (its
\* synthesis is attempted then, and the question is asked unless that raises);
\* the user's turn is appended, then one assistant turn per question, and each
\* answered question raises the counter by exactly one; the counter stays
\* within 0..max_questions and one call asks at most max_questions questions;
\* when the first extraction is complete no question is asked and the counter
\* is unchanged. A step in which the extractor itself raises appends the
\* user's turn, asks nothing and leaves the counter as it was; a step in which
\* input() raises, there being no reply to read, leaves the history and the
\* counter as they were at the question and asks nothing.
C35_QuestionAskedIffMissingBelowLimit ==
    [][ ret'.op = "process_conversation" =>
          LET asked_now == pc' = "awaiting"
              raised == ret'.outcome = SynthesisFailed
              failed == ret'.outcome \in ExtractionRaised
              no_reply == ret'.outcome \in InputRaised
              n == Len(conversation_history)
          IN  /\ (~failed /\ ~no_reply) =>
                    /\ (asked_now \/ raised)
                          <=> (missing_fields' # << >> /\ current_question' < max_questions)
                    /\ current_question' = IF pc = "awaiting" THEN current_question + 1
                                           ELSE current_question
              /\ (failed \/ no_reply) =>
                    (~asked_now /\ current_question' = current_question)
              /\ no_reply => (pc = "awaiting" /\ conversation_history' = conversation_history)
              /\ current_question' \in 0..max_questions
              /\ SubSeq(conversation_history', 1, n) = conversation_history
              /\ ~no_reply =>
                    /\ Len(conversation_history') = n + 1 + (IF asked_now THEN 1 ELSE 0)
                    /\ conversation_history'[n + 1].role = "user"
              /\ asked_now =>
                    /\ conversation_history'[n + 2].role = "assistant"
                    /\ conversation_history'[n + 2].content
                          = generate_followup_question(missing_fields', result')
                    /\ extract_calls' <= max_questions ]_vars

\* after a conversation in which two questions were asked and answered, a
\* conversation whose first extraction is complete has finalized: no question
\* was added and the counter is still 2
C35_Witness ==
    /\ Finalized
    /\ conv_no = 2
    /\ extract_calls = 1
    /\ missing_fields = << >>
    /\ current_question = 2
    /\ AssistantTurns = 2
    /\ conversation_history[Len(conversation_history)].role = "user"

\* C37: after any sequence of store operations every log entry of every
\* session carries has_missing_data and unusual_symptoms, so get_session_data
\* on a session of the store and get_stats return.
C37_EveryLogEntryHasFlags ==
    /\ \A sid \in DOMAIN store.sessions :
         /\ \A i \in 1..Len(store.sessions[sid]["logs"]) :
               /\ Has(store.sessions[sid]["logs"][i], "has_missing_data")
               /\ Has(store.sessions[sid]["logs"][i], "unusual_symptoms")
         /\ get_session_data(store, sid).outcome = Returned
    /\ get_stats(store).outcome = Returned

\* C38: end_session(X) with X not the store's current session, or X unknown,
\* leaves current_session_id unchanged, and add_log_to_history on the store it
\* leaves still appends to the current session when that one is active.
C38_EndSessionKeepsOtherCurrent ==
    [][ ( /\ ret'.op = "end_session"
          /\ ret'.sid # store.current_session_id )
        => /\ store'.current_session_id = store.current_session_id
           /\ ( /\ store.current_session_id \in DOMAIN store.sessions
                /\ store.sessions[store.current_session_id]["status"] = "active" )
              => \A log_data \in LogInputs :
                   add_log_to_history(store', log_data, clock).outcome = Returned ]_vars

\* C39: current_session_id is None or the id of a session of the store whose
\* status is active, and a returning add_log_to_history has appended to a
\* session that was active.
C39_CurrentIsNoneOrActive ==
    /\ \/ store.current_session_id = None
       \/ /\ store.current_session_id \in DOMAIN store.sessions
          /\ store.sessions[store.current_session_id]["status"] = "active"
    /\ \A log_data \in LogInputs :
         LET r == add_log_to_history(store, log_data, clock)
         IN  \A sid \in DOMAIN store.sessions :
               store.sessions[sid]["status"] = "completed"
               => r.store.sessions[sid] = store.sessions[sid]

\* a session has been ended, another one is the active current one and holds
\* a log entry appended by add_log_to_history
C39_Witness ==
    /\ store.current_session_id \in DOMAIN store.sessions
    /\ store.sessions[store.current_session_id]["status"] = "active"
    /\ \E sid \in DOMAIN store.sessions : store.sessions[sid]["status"] = "completed"
    /\ ret.op = "add_log_to_history"
    /\ ret.outcome = Returned
    /\ Len(store.sessions[store.current_session_id]["logs"]) >= 1

====
